---- MODULE Spec2Model ----
(***************************************************************************)
(* A model of the MaxDiff trial engine of react-maxdiff-app:                *)
(* class MaxDiffEngine (core/maxDiffEngine.ts), its constructor,            *)
(* getNextTrialSet, recordChoice, isComplete, getChoices and getProgress;   *)
(* the task session store (store/taskSessionStore.ts) that drives it; the   *)
(* objects a caller shares with the engine; the score aggregation of       *)
(* MaxDiffVisualization; the item store, the configuration store with     *)
(* ConfigPanel, the TrialView component and the CSV export of App.         *)
(*                                                                         *)
(* Spec is the engine called directly, SpecStore the session store.        *)
(* SpecShared is a caller that changes the objects it shares with its     *)
(* engine, SpecScores the aggregation of a choice log.  SpecParticipant   *)
(* is a participant answering every trial, SpecItems the pool being        *)
(* edited, SpecView a participant dragging and touching in TrialView,     *)
(* SpecConfig the form being edited, SpecExport a task run and exported.  *)
(*                                                                         *)
(* An item is a record [id, name]; the engine only ever reads item.id.     *)
(* A thrown Error is modelled by its message.  targetTrials and            *)
(* itemsPerSubset range over integers (the configuration form only ever    *)
(* produces integers; targetTrials >= 0).                                  *)
(***************************************************************************)
EXTENDS Integers, Sequences, FiniteSets, TLC

VARIABLES
    engine,     \* the MaxDiffEngine object, or NoEngine before `new` succeeds
    pre,        \* the engine as it was when the last call started
    call,       \* the last call: its name, its arguments and how it ended
    succeeded,  \* number of recordChoice calls that recorded a choice
    store,      \* the state of useTaskSessionStore
    observed,   \* the last store action: the taskStatus and error it started
                \* from and what it published, one update per set() call
    shared,     \* the objects of a caller and of its engine, by address
    scores,     \* the inputs of the score aggregation and, once computed,
                \* its result
    itemStore,  \* the state of useItemStore, with the object URLs created
                \* and revoked so far
    view,       \* the state of the TrialView component, with its pending
                \* touch timers and the closure of its touchend listener
    configStore, \* the state of useConfigStore
    panel,      \* the state of the ConfigPanel component
    download    \* the last click on Download Results: what the handler read
                \* and the file it produced

\* The state of the user interface around the session.
uiVars == <<itemStore, view, configStore, panel, download>>

vars == <<engine, pre, call, succeeded, store, observed, shared, scores, uiVars>>

\* What the calls on a bare engine leave alone.
storeVars == <<store, observed, shared, scores, uiVars>>

\* What the store actions leave alone: the store holds its own engine.
engineVars == <<engine, pre, succeeded, shared, scores, uiVars>>

\* What a caller working on the objects it shares with its engine leaves alone.
valueVars == <<engine, pre, call, succeeded, store, observed, scores, uiVars>>

\* What the user interface leaves alone when it does not touch the session.
sessionVars == <<engine, pre, call, succeeded, store, observed, shared, scores>>

----------------------------------------------------------------------------
(* Bounds of the model *)

\* largest targetTrials a session is configured with
MaxTarget == 2

\* largest item pool handed to the constructor
MaxPool == 3

\* most steps a caller takes on the objects it shares with its engine
MaxEdits == 3

\* longest choice log handed to the score aggregation
MaxChoices == 2

----------------------------------------------------------------------------
(* Items *)

Item(i, n) == [id |-> i, name |-> n]

\* The items of the pool, in pool order.
PoolItem(i) == Item(i, "item")

Pool(n) == [i \in 1..n |-> PoolItem(i)]

\* An object that carries the id of pool item 1 but is another object
\* (a re-created item), to tell identity by id from identity by reference.
Alias == Item(1, "alias")

\* The items a caller passes as bestItem / worstItem.
ArgItems == {PoolItem(1), PoolItem(2), Alias}

\* The presentedItems arrays a caller passes: empty, a single item, a pair,
\* and a triple in another order that holds the alias object.
PresentedInputs ==
    { <<>>,
      <<PoolItem(1)>>,
      <<PoolItem(1), PoolItem(2)>>,
      <<PoolItem(3), PoolItem(2), Alias>> }

EngineConfig(k, t) == [itemsPerSubset |-> k, targetTrials |-> t]

\* The configurations handed to the constructor, valid and invalid.
ConfigInputs == { EngineConfig(k, t) : k \in 1..(MaxPool + 1), t \in 0..MaxTarget }

PoolInputs == { Pool(n) : n \in 0..MaxPool }

----------------------------------------------------------------------------
(* Error messages *)

ErrTooFewItems == "Number of items cannot be less than itemsPerSubset."
ErrSubsetTooSmall == "Items per subset must be at least 2 to pick best and worst."
ErrSameItem == "Best and worst items cannot be the same."
ErrNotPresented == "Best and/or worst items are not part of the presented items."

InvalidConfiguration == {ErrTooFewItems, ErrSubsetTooSmall}
InvalidChoice == {ErrSameItem, ErrNotPresented}

----------------------------------------------------------------------------
(* The engine object *)

NoEngine == [null |-> TRUE]

NewEngine(items, config) ==
    [null |-> FALSE, items |-> items, config |-> config,
     trialsConducted |-> 0, choices |-> <<>>]

RecordedChoice(n, ids, b, w) ==
    [trialNumber |-> n, presentedItemIds |-> ids, bestItemId |-> b, worstItemId |-> w]

\* How a call ends: it returns (possibly after console.warn) or throws.
Returns(e) == [threw |-> FALSE, message |-> "", warned |-> FALSE, engine |-> e]
Warns(e) == [threw |-> FALSE, message |-> "", warned |-> TRUE, engine |-> e]
Throws(msg, e) == [threw |-> TRUE, message |-> msg, warned |-> FALSE, engine |-> e]

\* Mutant: the pool-size test off by one (<= for <).
Constructor_OffByOne(items, config) ==
    IF Len(items) <= config.itemsPerSubset THEN Throws(ErrTooFewItems, NoEngine)
    ELSE IF config.itemsPerSubset < 2 THEN Throws(ErrSubsetTooSmall, NoEngine)
    ELSE Returns(NewEngine(items, config))

\* new MaxDiffEngine(items, config)
Constructor(items, config) ==
    IF Len(items) < config.itemsPerSubset THEN Throws(ErrTooFewItems, NoEngine)
    ELSE IF config.itemsPerSubset < 2 THEN Throws(ErrSubsetTooSmall, NoEngine)
    ELSE Returns(NewEngine(items, config))

\* Mutant: complete only once the target is exceeded (> for >=).
isComplete_Strict(e) == e.trialsConducted > e.config.targetTrials

\* engine.isComplete()
isComplete(e) == e.trialsConducted >= e.config.targetTrials

\* presentedItems.find(item => item.id === x.id) is not undefined
FindById(presentedItems, x) ==
    \E i \in 1..Len(presentedItems) : presentedItems[i].id = x.id

\* presentedItems.map(item => item.id)
MapIds(presentedItems) == [i \in 1..Len(presentedItems) |-> presentedItems[i].id]

\* Mutant: the entry is pushed but trialsConducted is not incremented.
PushChoice_NoIncrement(e, presentedItems, bestItem, worstItem) ==
    [e EXCEPT !.choices = Append(@, RecordedChoice(e.trialsConducted + 1,
                                                   MapIds(presentedItems),
                                                   bestItem.id, worstItem.id))]

\* Mutant: the entry is numbered before the increment (0-based trial numbers).
PushChoice_ZeroBased(e, presentedItems, bestItem, worstItem) ==
    [e EXCEPT !.trialsConducted = @ + 1,
              !.choices = Append(@, RecordedChoice(e.trialsConducted,
                                                   MapIds(presentedItems),
                                                   bestItem.id, worstItem.id))]

\* Mutant: the entry is put at the front of the log (unshift for push).
PushChoice_Prepend(e, presentedItems, bestItem, worstItem) ==
    LET n == e.trialsConducted + 1
    IN [e EXCEPT !.trialsConducted = n,
                 !.choices = <<RecordedChoice(n, MapIds(presentedItems),
                                              bestItem.id, worstItem.id)>> \o @]

\* this.trialsConducted++; this.choices.push({...})
PushChoice(e, presentedItems, bestItem, worstItem) ==
    LET n == e.trialsConducted + 1
    IN [e EXCEPT !.trialsConducted = n,
                 !.choices = Append(@, RecordedChoice(n, MapIds(presentedItems),
                                                      bestItem.id, worstItem.id))]

\* Mutant: best and worst compared as objects, not by id.
recordChoice_ByReference(e, presentedItems, bestItem, worstItem) ==
    IF isComplete(e) THEN Warns(e)
    ELSE IF bestItem = worstItem THEN Throws(ErrSameItem, e)
    ELSE IF ~FindById(presentedItems, bestItem) \/ ~FindById(presentedItems, worstItem)
         THEN Throws(ErrNotPresented, e)
    ELSE Returns(PushChoice(e, presentedItems, bestItem, worstItem))

\* Mutant: only bestItem is looked up in presentedItems.
recordChoice_OnlyBestLookedUp(e, presentedItems, bestItem, worstItem) ==
    IF isComplete(e) THEN Warns(e)
    ELSE IF bestItem.id = worstItem.id THEN Throws(ErrSameItem, e)
    ELSE IF ~FindById(presentedItems, bestItem) THEN Throws(ErrNotPresented, e)
    ELSE Returns(PushChoice(e, presentedItems, bestItem, worstItem))

\* Mutant: trialsConducted is incremented before the arguments are validated.
recordChoice_IncrementFirst(e, presentedItems, bestItem, worstItem) ==
    LET e1 == [e EXCEPT !.trialsConducted = @ + 1]
    IN IF isComplete(e) THEN Warns(e)
       ELSE IF bestItem.id = worstItem.id THEN Throws(ErrSameItem, e1)
       ELSE IF ~FindById(presentedItems, bestItem) \/ ~FindById(presentedItems, worstItem)
            THEN Throws(ErrNotPresented, e1)
       ELSE Returns(PushChoice(e, presentedItems, bestItem, worstItem))

\* Mutant: a call on a complete engine throws instead of warning.
recordChoice_ThrowWhenComplete(e, presentedItems, bestItem, worstItem) ==
    IF isComplete(e) THEN Throws("Task is already complete.", e)
    ELSE IF bestItem.id = worstItem.id THEN Throws(ErrSameItem, e)
    ELSE IF ~FindById(presentedItems, bestItem) \/ ~FindById(presentedItems, worstItem)
         THEN Throws(ErrNotPresented, e)
    ELSE Returns(PushChoice(e, presentedItems, bestItem, worstItem))

\* Mutant: the completion guard is missing.
recordChoice_NoCompleteGuard(e, presentedItems, bestItem, worstItem) ==
    IF bestItem.id = worstItem.id THEN Throws(ErrSameItem, e)
    ELSE IF ~FindById(presentedItems, bestItem) \/ ~FindById(presentedItems, worstItem)
         THEN Throws(ErrNotPresented, e)
    ELSE Returns(PushChoice(e, presentedItems, bestItem, worstItem))

\* Mutant: the best = worst test is missing.
recordChoice_NoSameTest(e, presentedItems, bestItem, worstItem) ==
    IF isComplete(e) THEN Warns(e)
    ELSE IF ~FindById(presentedItems, bestItem) \/ ~FindById(presentedItems, worstItem)
         THEN Throws(ErrNotPresented, e)
    ELSE Returns(PushChoice(e, presentedItems, bestItem, worstItem))

\* engine.recordChoice(presentedItems, bestItem, worstItem)
recordChoice(e, presentedItems, bestItem, worstItem) ==
    IF isComplete(e) THEN Warns(e)
    ELSE IF bestItem.id = worstItem.id THEN Throws(ErrSameItem, e)
    ELSE IF ~FindById(presentedItems, bestItem) \/ ~FindById(presentedItems, worstItem)
         THEN Throws(ErrNotPresented, e)
    ELSE Returns(PushChoice(e, presentedItems, bestItem, worstItem))

\* The orders [...items].sort(() => 0.5 - Math.random()) can leave the copy in:
\* with an inconsistent comparator the order is implementation-defined, but the
\* result is a permutation of the copy.
Shuffles(items) ==
    LET n == Len(items)
        perms == { p \in [1..n -> 1..n] : \A i, j \in 1..n : p[i] = p[j] => i = j }
    IN { [i \in 1..n |-> items[p[i]]] : p \in perms }

\* The comparator () => 0.5 - Math.random() ignores its arguments and is
\* positive or negative with the same chance.  A sort that makes at most c
\* comparisons is decided by c fair coins: coins[i] = 1 when the i-th call of
\* the comparator returns a positive number, 0 when a negative one.
Coins(c) == [1..c -> {0, 1}]

\* comparisons a sort of n elements makes at most
MaxComparisons(n) == (n * (n - 1)) \div 2

Swap(a, i, j) == [a EXCEPT ![i] = a[j], ![j] = a[i]]

\* The element at position p moves left while comparefn(a[p - 1], element) > 0;
\* c is the coin of the next comparison.
RECURSIVE SiftLeft(_, _, _, _)
SiftLeft(a, p, c, coins) ==
    IF p = 1 THEN [arr |-> a, c |-> c]
    ELSE IF coins[c] = 1 THEN SiftLeft(Swap(a, p - 1, p), p - 1, c + 1, coins)
    ELSE [arr |-> a, c |-> c + 1]

\* Insertion sort of a from its i-th element on.
RECURSIVE InsertionSort(_, _, _, _)
InsertionSort(a, i, c, coins) ==
    IF i > Len(a) THEN a
    ELSE LET r == SiftLeft(a, i, c, coins)
         IN InsertionSort(r.arr, i + 1, r.c, coins)

\* Binary search of the place of a pivot in the sorted positions left..right-1:
\* comparefn(pivot, a[mid]) < 0 continues on the left of mid.
RECURSIVE SearchPlace(_, _, _, _)
SearchPlace(left, right, c, coins) ==
    IF left >= right THEN [at |-> left, c |-> c]
    ELSE LET mid == left + ((right - left) \div 2)
         IN IF coins[c] = 0 THEN SearchPlace(left, mid, c + 1, coins)
            ELSE SearchPlace(mid + 1, right, c + 1, coins)

\* a with its i-th element moved to position at <= i
MoveTo(a, i, at) ==
    [j \in 1..Len(a) |-> IF j < at \/ j > i THEN a[j]
                         ELSE IF j = at THEN a[i] ELSE a[j - 1]]

\* Binary insertion sort of a from its i-th element on.
RECURSIVE BinaryInsertionSort(_, _, _, _)
BinaryInsertionSort(a, i, c, coins) ==
    IF i > Len(a) THEN a
    ELSE LET r == SearchPlace(1, i, c, coins)
         IN BinaryInsertionSort(MoveTo(a, i, r.at), i + 1, r.c, coins)

\* The sorts Array.prototype.sort is modelled by: which one runs is up to
\* the JavaScript engine.
SortAlgorithms == {"insertion", "binaryInsertion"}

\* [...items].sort(() => 0.5 - Math.random()) when the comparator answers as
\* coins say
SortedWith(alg, items, coins) ==
    IF alg = "insertion" THEN InsertionSort(items, 2, 1, coins)
    ELSE BinaryInsertionSort(items, 2, 1, coins)

\* Of the equally likely ways the comparator can answer, the number that make
\* getNextTrialSet() return the items with the ids in ids.
Chances(alg, e, ids) ==
    Cardinality({ coins \in Coins(MaxComparisons(Len(e.items))) :
        { SortedWith(alg, e.items, coins)[i].id : i \in 1..e.config.itemsPerSubset }
            = ids })

\* Mutant: each of the k items is drawn from the whole pool (with replacement).
getNextTrialSet_WithReplacement(e) ==
    IF isComplete(e) THEN {}
    ELSE LET n == Len(e.items)
         IN { [i \in 1..e.config.itemsPerSubset |-> e.items[f[i]]] :
                  f \in [1..e.config.itemsPerSubset -> 1..n] }

\* Mutant: the completion test is missing, a subset is always drawn.
getNextTrialSet_NoCompleteTest(e) ==
    { SubSeq(s, 1, e.config.itemsPerSubset) : s \in Shuffles(e.items) }

\* Mutant: while an item has not been presented yet, only subsets holding such
\* an item are drawn (a balancing design).
getNextTrialSet_UnseenFirst(e) ==
    LET seen == UNION { { e.choices[i].presentedItemIds[j] :
                            j \in 1..Len(e.choices[i].presentedItemIds) } :
                        i \in 1..Len(e.choices) }
        all == { SubSeq(s, 1, e.config.itemsPerSubset) : s \in Shuffles(e.items) }
        fresh == { s \in all : \E i \in 1..Len(s) : s[i].id \notin seen }
    IN IF isComplete(e) THEN {}
       ELSE IF fresh = {} THEN all ELSE fresh

\* engine.getNextTrialSet(): the values one call can return (none when null)
getNextTrialSet(e) ==
    IF isComplete(e) THEN {}
    ELSE { SubSeq(s, 1, e.config.itemsPerSubset) : s \in Shuffles(e.items) }

\* engine.getChoices(): a copy of the log
getChoices(e) == e.choices

\* engine.getProgress()
getProgress(e) == [conducted |-> e.trialsConducted, target |-> e.config.targetTrials]

----------------------------------------------------------------------------
(* The task session store *)

NullTrialSet == [null |-> TRUE]

\* A trial set held by the store: the array getNextTrialSet returned.  ref
\* tells one returned array from another: it is the number of arrays the
\* session's engine had returned when this one was made.
TrialSet(itemSeq, ref) == [null |-> FALSE, items |-> itemSeq, ref |-> ref]

NoError == [null |-> TRUE]
ErrorMessage(msg) == [null |-> FALSE, message |-> msg]

ErrNotInitialized == "Task session or current trial is not initialized."

\* const initialState
initialState ==
    [engine |-> NoEngine, currentTrialSet |-> NullTrialSet,
     taskStatus |-> "idle", error |-> NoError]

\* The store before any action.  drawn is not a field of the store: it counts
\* the getNextTrialSet calls made on the session's engine.
InitialStore ==
    [engine |-> NoEngine, currentTrialSet |-> NullTrialSet,
     taskStatus |-> "idle", error |-> NoError, drawn |-> 0]

\* set(partial): the fields of partial replace those of the store
Set(st, partial) ==
    [f \in DOMAIN st |-> IF f \in DOMAIN partial THEN partial[f] ELSE st[f]]

\* How a store action ends: the store it leaves, what it returns, whether an
\* exception escaped it, and the argument of each set() call it made, in order.
Outcome(st, ret, sets) == [store |-> st, ret |-> ret, threw |-> FALSE, sets |-> sets]
Escapes(st, sets) == [store |-> st, ret |-> FALSE, threw |-> TRUE, sets |-> sets]

\* The values engine.getNextTrialSet() can hand to the store, as the n-th
\* array of the session.
Draw(e, n) ==
    IF getNextTrialSet(e) = {} THEN {NullTrialSet}
    ELSE { TrialSet(s, n) : s \in getNextTrialSet(e) }

\* Mutant: no try/catch, the constructor's exception escapes.
StartFailed_NoCatch(st, msg) == Escapes(st, <<>>)

\* startNewTaskSession, catch block
StartFailed(st, msg) ==
    LET u == [error |-> ErrorMessage(msg), engine |-> NoEngine,
              currentTrialSet |-> NullTrialSet, taskStatus |-> "idle"]
    IN Outcome([Set(st, u) EXCEPT !.drawn = 0], FALSE, <<u>>)

\* startNewTaskSession, try block after the engine e was constructed and
\* getNextTrialSet() returned first
StartSucceeded(st, e, first) ==
    LET u == [engine |-> e, currentTrialSet |-> first,
              taskStatus |-> "in_progress", error |-> NoError]
    IN Outcome([Set(st, u) EXCEPT !.drawn = 1], TRUE, <<u>>)

\* useTaskSessionStore.startNewTaskSession(items, config): its outcomes
startNewTaskSession(st, items, config) ==
    LET u0 == [error |-> NoError]
        st1 == Set(st, u0)
        r == Constructor(items, config)
        ends == IF r.threw THEN { StartFailed(st1, r.message) }
                ELSE { StartSucceeded(st1, r.engine, first) :
                           first \in Draw(r.engine, 1) }
    IN { [o EXCEPT !.sets = <<u0>> \o @] : o \in ends }

\* Mutant: the store is updated once after recordChoice and once more after
\* getNextTrialSet.
SubmitRecorded_TwoUpdates(st, e, next) ==
    LET u1 == [taskStatus |-> IF isComplete(e) THEN "completed" ELSE "in_progress",
               error |-> NoError]
        u2 == [currentTrialSet |-> next]
    IN Outcome([Set(Set([st EXCEPT !.engine = e], u1), u2) EXCEPT !.drawn = @ + 1],
               FALSE, <<u1, u2>>)

\* submitChoiceAndProceed, try block after recordChoice returned, leaving the
\* engine object as e, and getNextTrialSet() returned next
SubmitRecorded(st, e, next) ==
    LET u == [currentTrialSet |-> next,
              taskStatus |-> IF isComplete(e) THEN "completed" ELSE "in_progress",
              error |-> NoError]
    IN Outcome([Set([st EXCEPT !.engine = e], u) EXCEPT !.drawn = @ + 1],
               FALSE, <<u>>)

\* set({ error: errorMessage })
SetError(st, msg) ==
    LET u == [error |-> ErrorMessage(msg)]
    IN Outcome(Set(st, u), FALSE, <<u>>)

\* Mutant: the choice is recorded against a subset drawn anew instead of the
\* displayed currentTrialSet.
submitChoiceAndProceed_Redrawn(st, bestItem, worstItem) ==
    IF st.engine.null \/ st.currentTrialSet.null
    THEN { SetError(st, ErrNotInitialized) }
    ELSE UNION { LET r == recordChoice(st.engine, s, bestItem, worstItem)
                 IN IF r.threw THEN { SetError([st EXCEPT !.engine = r.engine], r.message) }
                    ELSE { SubmitRecorded(st, r.engine, next) :
                               next \in Draw(r.engine, st.drawn + 1) }
                 : s \in getNextTrialSet(st.engine) }

\* useTaskSessionStore.submitChoiceAndProceed(bestItem, worstItem): its
\* outcomes.  The engine object is changed in place by recordChoice, so the
\* store holds whatever the call left of it, also when it threw.
submitChoiceAndProceed(st, bestItem, worstItem) ==
    IF st.engine.null \/ st.currentTrialSet.null
    THEN { SetError(st, ErrNotInitialized) }
    ELSE LET r == recordChoice(st.engine, st.currentTrialSet.items, bestItem, worstItem)
         IN IF r.threw THEN { SetError([st EXCEPT !.engine = r.engine], r.message) }
            ELSE { SubmitRecorded(st, r.engine, next) :
                       next \in Draw(r.engine, st.drawn + 1) }

\* useTaskSessionStore.getRecordedChoices()
getRecordedChoices(st) ==
    IF ~st.engine.null THEN getChoices(st.engine) ELSE <<>>

NullProgress == [null |-> TRUE]

\* useTaskSessionStore.getProgress()
getProgressOfStore(st) ==
    IF ~st.engine.null
    THEN [null |-> FALSE, progress |-> getProgress(st.engine)]
    ELSE NullProgress

\* Mutant: the reset leaves the error message in place.
endTaskSession_KeepsError(st) ==
    LET u == [engine |-> NoEngine, currentTrialSet |-> NullTrialSet,
              taskStatus |-> "idle"]
    IN Outcome([Set(st, u) EXCEPT !.drawn = 0], FALSE, <<u>>)

\* useTaskSessionStore.endTaskSession()
endTaskSession(st) ==
    Outcome([Set(st, initialState) EXCEPT !.drawn = 0], FALSE, <<initialState>>)

\* useTaskSessionStore.clearError()
clearError(st) ==
    LET u == [error |-> NoError]
    IN Outcome(Set(st, u), FALSE, <<u>>)

NoLine == [shown |-> FALSE]

\* TrialView render: the line "Progress: Trial {conducted + 1} of {target}",
\* when it is rendered
ProgressLine(st) ==
    IF st.taskStatus = "idle" \/ (st.currentTrialSet.null /\ st.taskStatus # "completed")
    THEN NoLine
    ELSE IF st.taskStatus = "completed" THEN NoLine
    ELSE IF getProgressOfStore(st).null THEN NoLine
    ELSE [shown |-> TRUE,
          trial |-> getProgressOfStore(st).progress.conducted + 1,
          of |-> getProgressOfStore(st).progress.target]

\* What is kept of a store action for the properties: the taskStatus and the
\* error the store had when it started, and its set() calls.
NothingObserved == [status |-> "idle", error |-> NoError, sets |-> <<>>]

----------------------------------------------------------------------------
(* The TrialView component (components/TrialView.tsx).  App renders it while *)
(* taskStatus is 'in_progress'.  Its state is the useState values; a null    *)
(* item id is NoId, a null draggedItem is NoItem.  A handler works on the    *)
(* values of the render that created it: the handlers bound in the JSX are   *)
(* those of the last render, the callback of a touch timer keeps the         *)
(* selections of the render in which the touch started, and the touchend     *)
(* listener those of the render in which its effect last ran.                *)

NoId == 0

NoTimer == [null |-> TRUE]

\* setTimeout(() => { handleDragStart(item) }, 500), created in a render
\* whose selections were best and worst
Timer(item, best, worst) ==
    [null |-> FALSE, item |-> item, best |-> best, worst |-> worst]

\* The useState values of a TrialView that has just been mounted.
MountedView ==
    [mounted |-> TRUE,
     selectedBestItemId |-> NoId, selectedWorstItemId |-> NoId,
     draggedItem |-> [id |-> 0, name |-> ""], isDragging |-> FALSE,
     touchTimer |-> NoTimer, pending |-> {},
     registered |-> [best |-> NoId, worst |-> NoId]]

\* No TrialView is rendered.
Unmounted == [MountedView EXCEPT !.mounted = FALSE]

\* handleDragStart(item), of a render whose selections were best and worst
handleDragStart(v, item, best, worst) ==
    [v EXCEPT !.selectedBestItemId = IF best = item.id THEN NoId ELSE @,
              !.selectedWorstItemId =
                  IF best # item.id /\ worst = item.id THEN NoId ELSE @,
              !.draggedItem = item,
              !.isDragging = TRUE]

\* Mutant: a drop on a zone does not take the item out of the other zone.
handleDrop_KeepsOtherZone(v, zone, best, worst) ==
    IF v.draggedItem.id = NoId THEN v
    ELSE IF zone = "best" THEN [v EXCEPT !.selectedBestItemId = v.draggedItem.id]
    ELSE IF zone = "worst" THEN [v EXCEPT !.selectedWorstItemId = v.draggedItem.id]
    ELSE v

\* handleDrop(x, y), of a render whose selections were best and worst; zone
\* is the zone (x, y) lies in: "best", "worst" or neither ("central")
handleDrop(v, zone, best, worst) ==
    IF v.draggedItem.id = NoId THEN v
    ELSE IF zone = "best"
    THEN [v EXCEPT !.selectedWorstItemId =
                       IF worst = v.draggedItem.id THEN NoId ELSE @,
                   !.selectedBestItemId = v.draggedItem.id]
    ELSE IF zone = "worst"
    THEN [v EXCEPT !.selectedBestItemId =
                       IF best = v.draggedItem.id THEN NoId ELSE @,
                   !.selectedWorstItemId = v.draggedItem.id]
    ELSE [v EXCEPT !.selectedBestItemId = IF best = v.draggedItem.id THEN NoId ELSE @,
                   !.selectedWorstItemId =
                       IF best # v.draggedItem.id /\ worst = v.draggedItem.id
                       THEN NoId ELSE @]

\* setIsDragging(false); setDraggedItem(null)
DragEnded(v) == [v EXCEPT !.isDragging = FALSE, !.draggedItem = [id |-> 0, name |-> ""]]

\* const isSubmitDisabled = ...
isSubmitDisabled(v) ==
    \/ v.selectedBestItemId = NoId
    \/ v.selectedWorstItemId = NoId
    \/ v.selectedBestItemId = v.selectedWorstItemId

NoSubmission == [called |-> FALSE]

\* currentTrialSet.find(item => item.id === id): the first item of that id
FindItem(itemSeq, id) ==
    LET at == { i \in 1..Len(itemSeq) : itemSeq[i].id = id }
    IN IF at = {} THEN [found |-> FALSE]
       ELSE [found |-> TRUE, item |-> itemSeq[CHOOSE i \in at : \A j \in at : i <= j]]

\* handleSubmit(): the submitChoiceAndProceed call it makes, if any
handleSubmit(v, currentTrialSet) ==
    IF v.selectedBestItemId = NoId \/ v.selectedWorstItemId = NoId
          \/ currentTrialSet.null
    THEN NoSubmission
    ELSE IF v.selectedBestItemId = v.selectedWorstItemId THEN NoSubmission
    ELSE LET bestItem == FindItem(currentTrialSet.items, v.selectedBestItemId)
             worstItem == FindItem(currentTrialSet.items, v.selectedWorstItemId)
         IN IF bestItem.found /\ worstItem.found
            THEN [called |-> TRUE, bestItem |-> bestItem.item,
                  worstItem |-> worstItem.item]
            ELSE NoSubmission

\* The dependencies [currentTrialSet, taskStatus, clearTaskError, taskError]
\* of the effect that resets the selections: whether it runs when the store
\* goes from before to after
SelectionEffectRuns(before, after) ==
    \/ before.currentTrialSet # after.currentTrialSet
    \/ before.taskStatus # after.taskStatus
    \/ before.error # after.error

\* The body of that effect, on the component
ResetSelections(v) ==
    [v EXCEPT !.selectedBestItemId = NoId, !.selectedWorstItemId = NoId,
              !.draggedItem = [id |-> 0, name |-> ""], !.isDragging = FALSE]

\* The effect that adds the touchmove and touchend listeners runs again when
\* one of [isDragging, draggedItem, touchTimer, touchStartY] has changed: the
\* listeners then work on the selections of that render.
Listening(old, new) ==
    IF <<new.isDragging, new.draggedItem, new.touchTimer>>
          # <<old.isDragging, old.draggedItem, old.touchTimer>>
    THEN [new EXCEPT !.registered = [best |-> new.selectedBestItemId,
                                     worst |-> new.selectedWorstItemId]]
    ELSE new

\* The store and the component once the store has gone from before to after
\* and App and TrialView have rendered again and run their effects.
Rendering(before, after, v) ==
    LET cleared == IF after.error.null THEN after ELSE clearError(after).store
    IN IF after.taskStatus # "in_progress"
       THEN [store |-> after, view |-> Unmounted]
       ELSE IF ~v.mounted
       THEN [store |-> cleared, view |-> MountedView]
       ELSE IF SelectionEffectRuns(before, after)
       THEN [store |-> cleared, view |-> Listening(v, ResetSelections(v))]
       ELSE [store |-> after, view |-> v]

\* Whether TrialView renders the trial: its items, zones and button.
TrialShown(st, v) == v.mounted /\ ~st.currentTrialSet.null

----------------------------------------------------------------------------
(* The item store (store/itemStore.ts).  An item of the pool is a record     *)
(* [id, type, name, previewUrl]; previewUrl = NoUrl stands for undefined.    *)
(* An object URL is the number of the URL.createObjectURL call that made it, *)
(* an id the number of the generateId call that made it                      *)
(* (crypto.randomUUID: no two calls return the same id).                     *)

MAX_ITEMS == 40

NoUrl == 0

\* A File: its name and the top-level type of its MIME type
\* ("image" for image/png, ...).
File(name, type) == [name |-> name, type |-> type]

\* items: [], and no object URL created yet
InitialItemStore ==
    [items |-> <<>>, generated |-> 0, created |-> 0, revoked |-> {}, adds |-> 0]

\* textList.slice(0, availableSlots), fileList.slice(0, availableSlots)
Slice(list, n) == SubSeq(list, 1, IF n < Len(list) THEN n ELSE Len(list))

\* the item type addMediaItems gives a file
ItemTypeOf(file) ==
    IF file.type = "image" THEN "image"
    ELSE IF file.type = "video" THEN "video"
    ELSE IF file.type = "audio" THEN "audio"
    ELSE "image"

\* whether addMediaItems creates an object URL for a file
HasPreview(file) == ItemTypeOf(file) \in {"image", "video"}

\* The number of object URLs created for the first n files of a list.
RECURSIVE PreviewsAmong(_, _)
PreviewsAmong(files, n) ==
    IF n = 0 THEN 0
    ELSE PreviewsAmong(files, n - 1) + (IF HasPreview(files[n]) THEN 1 ELSE 0)

\* useItemStore.addTextItems(textList)
addTextItems(st, textList) ==
    LET availableSlots == MAX_ITEMS - Len(st.items)
        itemsToAdd == Slice(textList, availableSlots)
        newMaxDiffItems ==
            [i \in 1..Len(itemsToAdd) |->
                [id |-> st.generated + i, type |-> "text",
                 name |-> itemsToAdd[i], previewUrl |-> NoUrl]]
    IN IF availableSlots <= 0 THEN st
       ELSE [st EXCEPT !.items = @ \o newMaxDiffItems,
                       !.generated = @ + Len(itemsToAdd)]

\* useItemStore.addMediaItems(fileList)
addMediaItems(st, fileList) ==
    LET availableSlots == MAX_ITEMS - Len(st.items)
        filesToProcess == Slice(fileList, availableSlots)
        newMaxDiffItems ==
            [i \in 1..Len(filesToProcess) |->
                [id |-> st.generated + i, type |-> ItemTypeOf(filesToProcess[i]),
                 name |-> filesToProcess[i].name,
                 previewUrl |-> IF HasPreview(filesToProcess[i])
                                THEN st.created + PreviewsAmong(filesToProcess, i)
                                ELSE NoUrl]]
    IN IF availableSlots <= 0 THEN st
       ELSE [st EXCEPT !.items = @ \o newMaxDiffItems,
                       !.generated = @ + Len(filesToProcess),
                       !.created = @ + PreviewsAmong(filesToProcess, Len(filesToProcess))]

\* The previewUrl values of a list of items.
PreviewUrls(items) ==
    { items[i].previewUrl : i \in 1..Len(items) } \ {NoUrl}

\* state.items.filter(item => item.id !== itemId)
RECURSIVE WithoutId(_, _)
WithoutId(items, itemId) ==
    IF items = <<>> THEN <<>>
    ELSE (IF Head(items).id # itemId THEN <<Head(items)>> ELSE <<>>)
             \o WithoutId(Tail(items), itemId)

\* useItemStore.clearAllItems()
clearAllItems(st) ==
    [st EXCEPT !.items = <<>>, !.revoked = @ \cup PreviewUrls(st.items)]

\* Mutant: the item is dropped, its object URL is not revoked.
removeItem_NoRevoke(st, itemId) ==
    [st EXCEPT !.items = WithoutId(@, itemId)]

\* useItemStore.removeItem(itemId): get().items.find(...) is the first item
\* of that id
removeItem(st, itemId) ==
    LET found == { i \in 1..Len(st.items) : st.items[i].id = itemId }
        itemToRemove == st.items[CHOOSE i \in found : \A j \in found : i <= j]
    IN [st EXCEPT !.items = WithoutId(@, itemId),
                  !.revoked = IF found # {} /\ itemToRemove.previewUrl # NoUrl
                              THEN @ \cup {itemToRemove.previewUrl}
                              ELSE @]

\* The object URLs created and not revoked.
LiveUrls(st) == (1..st.created) \ st.revoked

\* useItemStore.getItemCount()
getItemCount(st) == Len(st.items)

----------------------------------------------------------------------------
(* The configuration store (store/configStore.ts) and the ConfigPanel        *)
(* component (components/ConfigPanel.tsx).  A string is the sequence of its  *)
(* characters, so that trim, parseInt and toString are computed.  The two    *)
(* number inputs hold '' or the text of an integer.                          *)

ITEMS_PER_SUBSET_MIN == 3
ITEMS_PER_SUBSET_MAX == 7
ITEMS_PER_SUBSET_DEFAULT == 4
TARGET_NUMBER_OF_TRIALS_DEFAULT == 20

DIMENSION_POSITIVE_LABEL_DEFAULT == <<"B", "e", "s", "t">>
DIMENSION_NEGATIVE_LABEL_DEFAULT == <<"W", "o", "r", "s", "t">>

INSTRUCTION_TEXT_DEFAULT ==
    <<"P", "l", "e", "a", "s", "e", " ", "c", "h", "o", "o", "s", "e", " ",
      "t", "h", "e", " ", "i", "t", "e", "m", " ", "y", "o", "u", " ", "f",
      "i", "n", "d", " ", "B", "E", "S", "T", " ", "a", "n", "d", " ", "t",
      "h", "e", " ", "i", "t", "e", "m", " ", "y", "o", "u", " ", "f", "i",
      "n", "d", " ", "W", "O", "R", "S", "T", ".">>

DigitChars == <<"0", "1", "2", "3", "4", "5", "6", "7", "8", "9">>

IsDigit(c) == \E d \in 1..10 : DigitChars[d] = c

DigitOf(c) == (CHOOSE d \in 1..10 : DigitChars[d] = c) - 1

\* n.toString(), of an integer
RECURSIVE NumberToString(_)
NumberToString(n) ==
    IF n < 0 THEN <<"-">> \o NumberToString(-n)
    ELSE IF n < 10 THEN <<DigitChars[n + 1]>>
    ELSE NumberToString(n \div 10) \o <<DigitChars[(n % 10) + 1]>>

RECURSIVE TrimStart(_)
TrimStart(str) ==
    IF str # <<>> /\ Head(str) = " " THEN TrimStart(Tail(str)) ELSE str

RECURSIVE TrimEnd(_)
TrimEnd(str) ==
    IF str # <<>> /\ str[Len(str)] = " " THEN TrimEnd(SubSeq(str, 1, Len(str) - 1))
    ELSE str

\* str.trim()
Trim(str) == TrimEnd(TrimStart(str))

NaN == [nan |-> TRUE]

\* The value of the longest run of digits str starts with, after value.
RECURSIVE LeadingDigits(_, _)
LeadingDigits(str, value) ==
    IF str # <<>> /\ IsDigit(Head(str))
    THEN LeadingDigits(Tail(str), value * 10 + DigitOf(Head(str)))
    ELSE value

\* parseInt(str, 10)
ParseInt(str) ==
    LET t == TrimStart(str)
        negative == t # <<>> /\ Head(t) = "-"
        digits == IF t # <<>> /\ Head(t) \in {"-", "+"} THEN Tail(t) ELSE t
    IN IF digits = <<>> \/ ~IsDigit(Head(digits)) THEN NaN
       ELSE [nan |-> FALSE,
             value |-> IF negative THEN -LeadingDigits(digits, 0)
                       ELSE LeadingDigits(digits, 0)]

\* Number(str) < 0, for the text of an integer
NumberIsNegative(str) == ~ParseInt(str).nan /\ ParseInt(str).value < 0

\* useConfigStore, initialState
configInitialState ==
    [itemsPerSubset |-> ITEMS_PER_SUBSET_DEFAULT,
     dimensionPositiveLabel |-> DIMENSION_POSITIVE_LABEL_DEFAULT,
     dimensionNegativeLabel |-> DIMENSION_NEGATIVE_LABEL_DEFAULT,
     targetNumberOfTrials |-> TARGET_NUMBER_OF_TRIALS_DEFAULT,
     instructionText |-> INSTRUCTION_TEXT_DEFAULT,
     isConfigValid |-> FALSE]

\* useConfigStore.setItemsPerSubset(value)
setItemsPerSubset(cfg, value) ==
    LET atLeastMin == IF value > ITEMS_PER_SUBSET_MIN THEN value ELSE ITEMS_PER_SUBSET_MIN
        validatedValue == IF atLeastMin < ITEMS_PER_SUBSET_MAX THEN atLeastMin
                          ELSE ITEMS_PER_SUBSET_MAX
    IN [cfg EXCEPT !.itemsPerSubset = validatedValue]

\* useConfigStore.setTargetNumberOfTrials(value)
setTargetNumberOfTrials(cfg, value) == [cfg EXCEPT !.targetNumberOfTrials = value]

\* useConfigStore.resetConfigToDefaults(): set(initialState)
resetConfigToDefaults(cfg) == configInitialState

\* useConfigStore.setConfigValidity(valid)
setConfigValidity(cfg, valid) == [cfg EXCEPT !.isConfigValid = valid]

\* No ConfigPanel is rendered.
NoPanel ==
    [mounted |-> FALSE, trialsInputValue |-> <<>>, itemsPerSubsetInputValue |-> <<>>,
     validationErrors |-> {}, isFormValid |-> FALSE,
     prevItemCount |-> 0, prevRecommendedTrials |-> 0]

\* The useState and useRef values of a ConfigPanel being mounted, the store
\* holding cfg and the pool itemCount items.
NewPanel(cfg, itemCount) ==
    [mounted |-> TRUE,
     trialsInputValue |-> NumberToString(cfg.targetNumberOfTrials),
     itemsPerSubsetInputValue |-> NumberToString(cfg.itemsPerSubset),
     validationErrors |-> {}, isFormValid |-> FALSE,
     prevItemCount |-> itemCount, prevRecommendedTrials |-> 0]

\* Math.ceil(a / b), b > 0
Ceil(a, b) == (a + b - 1) \div b

\* calculateRecommendedTrials()
calculateRecommendedTrials(cfg, itemCount) ==
    IF itemCount > 0 THEN Ceil(3 * itemCount, cfg.itemsPerSubset) ELSE 10

\* validateForm(): the keys of the errors it finds
validateForm(cfg, p, itemCount) ==
    LET recommendedTrials == calculateRecommendedTrials(cfg, itemCount)
        positive == Trim(cfg.dimensionPositiveLabel)
        negative == Trim(cfg.dimensionNegativeLabel)
    IN (IF Trim(p.itemsPerSubsetInputValue) = <<>> THEN {"itemsPerSubset"}
        ELSE IF cfg.itemsPerSubset > itemCount /\ itemCount > 0 THEN {"itemsPerSubset"}
        ELSE {})
       \cup (IF positive = <<>> THEN {"dimensionPositiveLabel"} ELSE {})
       \cup (IF negative = <<>> THEN {"dimensionNegativeLabel"} ELSE {})
       \cup (IF positive = negative /\ positive # <<>> THEN {"dimensionBoth"} ELSE {})
       \cup (IF Trim(p.trialsInputValue) = <<>> THEN {"targetNumberOfTrials"}
             ELSE IF cfg.targetNumberOfTrials <= 0 THEN {"targetNumberOfTrials"}
             ELSE IF cfg.targetNumberOfTrials < recommendedTrials
             THEN {"targetNumberOfTrials"}
             ELSE {})
       \cup (IF Trim(cfg.instructionText) = <<>> THEN {"instructionText"}
             ELSE IF Len(Trim(cfg.instructionText)) < 20 THEN {"instructionText"}
             ELSE {})

\* The store and the component, as one value the handlers work on.
Form(cfg, p) == [config |-> cfg, panel |-> p]

\* validateForm() run on the values of the render f: the states it sets
Validated(f, itemCount) ==
    LET errors == validateForm(f.config, f.panel, itemCount)
    IN Form(setConfigValidity(f.config, errors = {}),
            [f.panel EXCEPT !.validationErrors = errors,
                            !.isFormValid = (errors = {}),
                            !.prevRecommendedTrials =
                                calculateRecommendedTrials(f.config, itemCount)])

\* The dependencies of the effect that validates when inputs change.
ValidationDeps(f) ==
    <<f.config.itemsPerSubset, f.panel.itemsPerSubsetInputValue,
      f.config.dimensionPositiveLabel, f.config.dimensionNegativeLabel,
      f.config.targetNumberOfTrials, f.panel.trialsInputValue,
      f.config.instructionText>>

\* The effects of ConfigPanel after an event took the form from before to f,
\* the pool holding itemCount items, its array replaced or not: the effects
\* of the first render after the event, in the order of the source, then
\* those of the render their state updates cause.
FormEffects(before, f, itemCount, itemsReplaced) ==
    LET validated == IF ValidationDeps(f) # ValidationDeps(before)
                     THEN Validated(f, itemCount) ELSE f
        counted == IF itemsReplaced /\ itemCount # f.panel.prevItemCount
                   THEN LET g == Validated(f, itemCount)
                        IN Form(g.config, [g.panel EXCEPT !.prevItemCount = itemCount])
                   ELSE validated
        second ==
            Form(counted.config,
                 [counted.panel EXCEPT
                    !.trialsInputValue =
                        IF f.config.targetNumberOfTrials # before.config.targetNumberOfTrials
                        THEN NumberToString(f.config.targetNumberOfTrials) ELSE @,
                    !.itemsPerSubsetInputValue =
                        IF f.config.itemsPerSubset # before.config.itemsPerSubset
                        THEN NumberToString(f.config.itemsPerSubset) ELSE @])
    IN IF ValidationDeps(second) # ValidationDeps(f)
       THEN Validated(second, itemCount) ELSE second

\* ConfigPanel is mounted: every effect runs.
FormMounted(cfg, itemCount) == Validated(Form(cfg, NewPanel(cfg, itemCount)), itemCount)

\* handleItemsPerSubsetChange(e), e.target.value = inputValue
handleItemsPerSubsetChange(f, inputValue) ==
    LET numValue == ParseInt(inputValue)
        typed == [f.panel EXCEPT !.itemsPerSubsetInputValue = inputValue]
    IN IF Trim(inputValue) = <<>>
       THEN Form(f.config, [typed EXCEPT !.validationErrors = @ \cup {"itemsPerSubset"}])
       ELSE IF numValue.nan THEN Form(f.config, typed)
       ELSE IF numValue.value < 3
       THEN Form(setItemsPerSubset(f.config, 3),
                 [typed EXCEPT !.itemsPerSubsetInputValue = <<"3">>])
       ELSE IF numValue.value > 7
       THEN Form(setItemsPerSubset(f.config, 7),
                 [typed EXCEPT !.itemsPerSubsetInputValue = <<"7">>])
       ELSE Form(setItemsPerSubset(f.config, numValue.value), typed)

\* handleTargetTrialsChange(e), e.target.value = inputValue
handleTargetTrialsChange(f, inputValue) ==
    LET numValue == ParseInt(inputValue)
        typed == [f.panel EXCEPT !.trialsInputValue = inputValue]
    IN IF inputValue # <<>> /\ NumberIsNegative(inputValue)
       THEN Form(setTargetNumberOfTrials(f.config, 0),
                 [f.panel EXCEPT !.trialsInputValue = <<"0">>])
       ELSE IF Trim(inputValue) = <<>>
       THEN Form(f.config, [typed EXCEPT !.validationErrors = @ \cup {"targetNumberOfTrials"}])
       ELSE IF ~numValue.nan
       THEN Form(setTargetNumberOfTrials(f.config, numValue.value), typed)
       ELSE Form(f.config, typed)

\* handleTargetTrialsBlur()
handleTargetTrialsBlur(f) ==
    IF Trim(f.panel.trialsInputValue) = <<>> \/ ParseInt(f.panel.trialsInputValue).nan
    THEN Form(f.config, [f.panel EXCEPT !.validationErrors = @ \cup {"targetNumberOfTrials"}])
    ELSE f

\* handleItemsPerSubsetBlur()
handleItemsPerSubsetBlur(f) ==
    IF Trim(f.panel.itemsPerSubsetInputValue) = <<>>
    THEN Form(f.config, [f.panel EXCEPT !.validationErrors = @ \cup {"itemsPerSubset"}])
    ELSE IF ParseInt(f.panel.itemsPerSubsetInputValue).nan
    THEN Form(setItemsPerSubset(f.config, 3),
              [f.panel EXCEPT !.itemsPerSubsetInputValue = <<"3">>])
    ELSE f

----------------------------------------------------------------------------
(* The CSV export (App.handleDownloadResults).  The content of the file is   *)
(* a string, a sequence of characters as the strings of the configuration.  *)

\* array.join(separator), of an array of strings
RECURSIVE Join(_, _)
Join(array, separator) ==
    IF array = <<>> THEN <<>>
    ELSE IF Len(array) = 1 THEN array[1]
    ELSE array[1] \o separator \o Join(Tail(array), separator)

\* The pieces a reader of the file cuts a string into at every separator.
RECURSIVE Split(_, _)
Split(str, separator) ==
    IF \E i \in 1..Len(str) : str[i] = separator
    THEN LET i == CHOOSE j \in 1..Len(str) :
                      /\ str[j] = separator
                      /\ \A h \in 1..(j - 1) : str[h] # separator
         IN <<SubSeq(str, 1, i - 1)>> \o Split(SubSeq(str, i + 1, Len(str)), separator)
    ELSE <<str>>

UnknownItem == <<"U", "n", "k", "n", "o", "w", "n", " ", "I", "t", "e", "m">>

\* itemNameMap.get(id) || 'Unknown Item': the map holds the name of the last
\* item of the pool with that id
RECURSIVE NameInMap(_, _)
NameInMap(items, id) ==
    IF items = <<>> THEN UnknownItem
    ELSE IF items[Len(items)].id = id
    THEN (IF items[Len(items)].name = <<>> THEN UnknownItem ELSE items[Len(items)].name)
    ELSE NameInMap(SubSeq(items, 1, Len(items) - 1), id)

\* headers
CsvHeaders(itemsPerSubset) ==
    <<<<"T", "r", "i", "a", "l", "N", "u", "m", "b", "e", "r">>, <<"B", "e", "s", "t", "I", "t", "e", "m">>, <<"W", "o", "r", "s", "t", "I", "t", "e", "m">>>>
      \o [i \in 1..itemsPerSubset |-> <<"P", "r", "e", "s", "e", "n", "t", "e", "d", "I", "t", "e", "m">> \o NumberToString(i)]

\* the row of a choice
CsvRow(choice, items, itemsPerSubset) ==
    LET presentedNames ==
            [i \in 1..itemsPerSubset |->
                IF i <= Len(choice.presentedItemIds)
                THEN NameInMap(items, choice.presentedItemIds[i])
                ELSE <<>>]
    IN Join(<<NumberToString(choice.trialNumber),
              NameInMap(items, choice.bestItemId),
              NameInMap(items, choice.worstItemId)>> \o presentedNames, <<",">>)

NothingDownloaded ==
    [clicked |-> FALSE, choices |-> <<>>, items |-> <<>>, itemsPerSubset |-> 0,
     produced |-> FALSE, csvContent |-> <<>>]

\* App.handleDownloadResults(), with what getRecordedChoices() returns and
\* the items and itemsPerSubset of the render
handleDownloadResults(choices, items, itemsPerSubset) ==
    IF Len(choices) = 0
    THEN [NothingDownloaded EXCEPT !.clicked = TRUE, !.items = items,
                                   !.itemsPerSubset = itemsPerSubset]
    ELSE [clicked |-> TRUE, choices |-> choices, items |-> items,
          itemsPerSubset |-> itemsPerSubset, produced |-> TRUE,
          csvContent |->
              Join(<<Join(CsvHeaders(itemsPerSubset), <<",">>)>>
                     \o [n \in 1..Len(choices) |->
                            CsvRow(choices[n], items, itemsPerSubset)],
                   <<"\n">>)]

----------------------------------------------------------------------------
(* Objects shared between a caller and the engine *)

\* The heap is a sequence of objects, an object's address is its index.  An
\* object is an array or a plain object (val) that is frozen or not.  An
\* array of objects holds their addresses.
Object(frozen, val) == [frozen |-> frozen, val |-> val]

\* a new object: the heap with it, and its address
Alloc(h, frozen, val) == [heap |-> Append(h, Object(frozen, val)), at |-> Len(h) + 1]

\* An assignment to an element or a field of the object at a, or a push or
\* pop on it: v is the object's new value.  On a frozen object it throws a
\* TypeError (module code is strict) and changes nothing.
Write(h, a, v) == IF h[a].frozen THEN h ELSE [h EXCEPT ![a].val = v]

\* Mutant: the object itself is kept, not a copy of it.
SpreadFrozen_Alias(h, a) == [heap |-> h, at |-> a]

\* Object.freeze([...x]) and Object.freeze({...x}): a frozen shallow copy
SpreadFrozen(h, a) == Alloc(h, TRUE, h[a].val)

NoRef == [null |-> TRUE]

\* The fields of an engine object: addresses, and the trial counter.
EngineRef(itemsAt, configAt, choicesAt, n) ==
    [null |-> FALSE, items |-> itemsAt, config |-> configAt,
     choices |-> choicesAt, trialsConducted |-> n]

\* The RecordedChoice object at address a, by value.
ChoiceAt(h, a) ==
    RecordedChoice(h[a].val.trialNumber, h[h[a].val.presentedItemIds].val,
                   h[a].val.bestItemId, h[a].val.worstItemId)

\* The array of RecordedChoice objects at address a, by value.
ChoicesAt(h, a) == [i \in 1..Len(h[a].val) |-> ChoiceAt(h, h[a].val[i])]

\* The engine with fields r, by value: what its methods read.
EngineAt(h, r) ==
    [null |-> FALSE, items |-> h[r.items].val, config |-> h[r.config].val,
     trialsConducted |-> r.trialsConducted, choices |-> ChoicesAt(h, r.choices)]

\* new MaxDiffEngine(items, config) with the array at itemsAt and the object
\* at configAt
ConstructorOnHeap(h, itemsAt, configAt) ==
    LET r == Constructor(h[itemsAt].val, h[configAt].val)
        i == SpreadFrozen(h, itemsAt)
        c == SpreadFrozen(i.heap, configAt)
        l == Alloc(c.heap, FALSE, <<>>)
    IN IF r.threw THEN [heap |-> h, engine |-> NoRef]
       ELSE [heap |-> l.heap, engine |-> EngineRef(i.at, c.at, l.at, 0)]

\* this.trialsConducted++; this.choices.push({trialNumber, presentedItemIds:
\* presentedItems.map(...), bestItemId, worstItemId}) for the entry c
PushOnHeap(h, r, c) ==
    LET ids == Alloc(h, FALSE, c.presentedItemIds)
        obj == Alloc(ids.heap, FALSE,
                     [trialNumber |-> c.trialNumber, presentedItemIds |-> ids.at,
                      bestItemId |-> c.bestItemId, worstItemId |-> c.worstItemId])
    IN [heap |-> Write(obj.heap, r.choices, Append(h[r.choices].val, obj.at)),
        engine |-> [r EXCEPT !.trialsConducted = c.trialNumber]]

\* engine.recordChoice(presentedItems, bestItem, worstItem)
recordChoiceOnHeap(h, r, presentedItems, bestItem, worstItem) ==
    LET res == recordChoice(EngineAt(h, r), presentedItems, bestItem, worstItem)
    IN IF res.threw \/ res.warned THEN [heap |-> h, engine |-> r]
       ELSE PushOnHeap(h, r, res.engine.choices[Len(res.engine.choices)])

\* engine.getChoices(): the heap with the returned array, and its address
getChoicesOnHeap(h, r) == SpreadFrozen(h, r.choices)

\* Before the caller has made anything.  items and config are the caller's
\* array and object, got the array the last getChoices() call returned (0:
\* none); made and logged are kept for the properties: the values of items
\* and config when the engine was constructed, and the entries the engine
\* has recorded; edits counts the caller's steps, op names the last one.
NothingShared ==
    [heap |-> <<>>, items |-> 0, config |-> 0, engine |-> NoRef, got |-> 0,
     made |-> [items |-> <<>>, config |-> EngineConfig(0, 0)],
     logged |-> <<>>, edits |-> 0, op |-> "none"]

----------------------------------------------------------------------------
(* Score aggregation (MaxDiffVisualization, const scores = useMemo(...)) *)

RECURSIVE GCD(_, _)
GCD(a, b) == IF b = 0 THEN a ELSE GCD(b, a % b)

Abs(x) == IF x < 0 THEN -x ELSE x

\* The number n / d (d >= 0) as a fraction in lowest terms, so that equal
\* numbers are equal records.  The percentages of a log of a few choices are
\* computed exactly.  A denominator of 0 is what a division by zero gives:
\* 0 / 0 is NaN, n / 0 is Infinity or -Infinity.
Fraction(n, d) ==
    LET g == GCD(Abs(n), d)
    IN IF d = 0 THEN [num |-> IF n > 0 THEN 1 ELSE IF n < 0 THEN -1 ELSE 0, den |-> 0]
       ELSE [num |-> n \div g, den |-> d \div g]

\* x - y
Minus(x, y) == Fraction(x.num * y.den - y.num * x.den, x.den * y.den)

\* x - y > 0
Greater(x, y) == x.num * y.den > y.num * x.den

\* Mutant: the guard is missing, the denominator is timesShown itself.
Max_Unguarded(a, b) == a

\* Math.max(a, b)
Max(a, b) == IF a >= b THEN a ELSE b

\* Mutant: the ratio is not scaled to a percentage.
Percent_Ratio(count, denominator) == Fraction(count, denominator)

\* (count / denominator) * 100
Percent(count, denominator) == Fraction(count * 100, denominator)

ZeroCounters == [timesShown |-> 0, timesBest |-> 0, timesWorst |-> 0]

\* items.forEach(item => { counters[item.id] = {0, 0, 0} })
InitialCounters(items) ==
    [id \in { items[i].id : i \in 1..Len(items) } |-> ZeroCounters]

\* itemNameMap.get(id): the name of the last item of the list with that id
NameOf(items, id) ==
    LET last == CHOOSE i \in 1..Len(items) :
                    /\ items[i].id = id
                    /\ \A j \in (i + 1)..Len(items) : items[j].id # id
    IN items[last].name

\* choice.presentedItemIds.forEach(itemId => { if (counters[itemId])
\* counters[itemId].timesShown++ }), from the i-th id on
RECURSIVE CountShown(_, _, _)
CountShown(counters, ids, i) ==
    IF i > Len(ids) THEN counters
    ELSE CountShown(IF ids[i] \in DOMAIN counters
                    THEN [counters EXCEPT ![ids[i]].timesShown = @ + 1]
                    ELSE counters,
                    ids, i + 1)

\* if (counters[choice.bestItemId]) counters[choice.bestItemId].timesBest++
CountBest(counters, id) ==
    IF id \in DOMAIN counters THEN [counters EXCEPT ![id].timesBest = @ + 1]
    ELSE counters

\* if (counters[choice.worstItemId]) counters[choice.worstItemId].timesWorst++
CountWorst(counters, id) ==
    IF id \in DOMAIN counters THEN [counters EXCEPT ![id].timesWorst = @ + 1]
    ELSE counters

\* Mutant: the worst selection is counted as a best selection.
CountChoice_WorstAsBest(counters, choice) ==
    CountBest(CountBest(CountShown(counters, choice.presentedItemIds, 1),
                        choice.bestItemId),
              choice.worstItemId)

\* the body of choices.forEach(choice => {...})
CountChoice(counters, choice) ==
    CountWorst(CountBest(CountShown(counters, choice.presentedItemIds, 1),
                         choice.bestItemId),
               choice.worstItemId)

\* choices.forEach(...), from the i-th choice on
RECURSIVE CountChoices(_, _, _)
CountChoices(counters, choices, i) ==
    IF i > Len(choices) THEN counters
    ELSE CountChoices(CountChoice(counters, choices[i]), choices, i + 1)

\* the body of items.map(item => {...})
ItemScore(item, counters, items) ==
    LET stats == counters[item.id]
        denominator == Max(stats.timesShown, 1)
        percentBest == Percent(stats.timesBest, denominator)
        percentWorst == Percent(stats.timesWorst, denominator)
        name == NameOf(items, item.id)
    IN [id |-> item.id,
        name |-> IF name = "" THEN ToString(item.id) ELSE name,
        preferenceScore |-> Minus(percentBest, percentWorst),
        timesShown |-> stats.timesShown,
        timesBest |-> stats.timesBest,
        timesWorst |-> stats.timesWorst,
        percentBest |-> percentBest,
        percentWorst |-> percentWorst]

\* Mutant: a row is put before the rows it ties with (an unstable sort).
InsertByScore_BeforeTies(sorted, row) ==
    LET before == { i \in 1..Len(sorted) :
                      \A j \in 1..i :
                          Greater(sorted[j].preferenceScore, row.preferenceScore) }
        n == Cardinality(before)
    IN SubSeq(sorted, 1, n) \o <<row>> \o SubSeq(sorted, n + 1, Len(sorted))

\* row put into a sequence sorted by preferenceScore descending, after the
\* rows it does not beat
InsertByScore(sorted, row) ==
    LET before == { i \in 1..Len(sorted) :
                      \A j \in 1..i :
                          ~Greater(row.preferenceScore, sorted[j].preferenceScore) }
        n == Cardinality(before)
    IN SubSeq(sorted, 1, n) \o <<row>> \o SubSeq(sorted, n + 1, Len(sorted))

\* itemScores.sort((a, b) => b.preferenceScore - a.preferenceScore): a stable
\* sort (ECMAScript 2019), rows taken from the i-th on
RECURSIVE SortByScore(_, _, _)
SortByScore(sorted, rows, i) ==
    IF i > Len(rows) THEN sorted
    ELSE SortByScore(InsertByScore(sorted, rows[i]), rows, i + 1)

\* Mutant: the early return tests the items list only.
computeScores_EmptyLogNotTested(choices, items) ==
    IF Len(items) = 0 THEN <<>>
    ELSE LET counters == CountChoices(InitialCounters(items), choices, 1)
             itemScores == [i \in 1..Len(items) |-> ItemScore(items[i], counters, items)]
         IN SortByScore(<<>>, itemScores, 1)

\* const scores = useMemo(() => {...}, [choices, items])
computeScores(choices, items) ==
    IF Len(choices) = 0 \/ Len(items) = 0 THEN <<>>
    ELSE LET counters == CountChoices(InitialCounters(items), choices, 1)
             itemScores == [i \in 1..Len(items) |-> ItemScore(items[i], counters, items)]
         IN SortByScore(<<>>, itemScores, 1)

\* Before anything is aggregated.
NothingScored == [choices |-> <<>>, items |-> <<>>, computed |-> FALSE, result |-> <<>>]

----------------------------------------------------------------------------
(* Calls *)

NoItem == Item(0, "")

\* A call record with every field at its default.
BlankCall ==
    [op |-> "none", items |-> <<>>, config |-> EngineConfig(0, 0),
     presentedItems |-> <<>>, bestItem |-> NoItem, worstItem |-> NoItem,
     threw |-> FALSE, message |-> "", warned |-> FALSE,
     isNull |-> FALSE, trialSet |-> <<>>, flag |-> FALSE,
     choices |-> <<>>, progress |-> [conducted |-> 0, target |-> 0]]

Init ==
    /\ engine = NoEngine
    /\ pre = NoEngine
    /\ call = BlankCall
    /\ succeeded = 0
    /\ store = InitialStore
    /\ observed = NothingObserved
    /\ shared = NothingShared
    /\ scores = NothingScored
    /\ itemStore = InitialItemStore
    /\ view = Unmounted
    /\ configStore = configInitialState
    /\ panel = NoPanel
    /\ download = NothingDownloaded

\* const engine = new MaxDiffEngine(items, config)
Construct(items, config) ==
    /\ engine.null
    /\ LET r == Constructor(items, config)
       IN /\ engine' = r.engine
          /\ call' = [BlankCall EXCEPT !.op = "constructor", !.items = items,
                                       !.config = config, !.threw = r.threw,
                                       !.message = r.message]
    /\ pre' = engine
    /\ succeeded' = 0
    /\ UNCHANGED storeVars

\* Mutant: drawing a trial set counts as a trial.
GetNextTrialSet_CountsTrial ==
    /\ ~engine.null
    /\ \E s \in getNextTrialSet(engine) :
          call' = [BlankCall EXCEPT !.op = "getNextTrialSet", !.trialSet = s]
    /\ pre' = engine
    /\ engine' = [engine EXCEPT !.trialsConducted = @ + 1]
    /\ UNCHANGED succeeded
    /\ UNCHANGED storeVars

GetNextTrialSet ==
    /\ ~engine.null
    /\ IF getNextTrialSet(engine) = {}
       THEN call' = [BlankCall EXCEPT !.op = "getNextTrialSet", !.isNull = TRUE]
       ELSE \E s \in getNextTrialSet(engine) :
                call' = [BlankCall EXCEPT !.op = "getNextTrialSet", !.trialSet = s]
    /\ pre' = engine
    /\ UNCHANGED <<engine, succeeded>>
    /\ UNCHANGED storeVars

RecordChoice(presentedItems, bestItem, worstItem) ==
    /\ ~engine.null
    /\ LET r == recordChoice(engine, presentedItems, bestItem, worstItem)
       IN /\ engine' = r.engine
          /\ call' = [BlankCall EXCEPT !.op = "recordChoice",
                                       !.presentedItems = presentedItems,
                                       !.bestItem = bestItem, !.worstItem = worstItem,
                                       !.threw = r.threw, !.message = r.message,
                                       !.warned = r.warned]
          /\ succeeded' = IF r.threw \/ r.warned THEN succeeded ELSE succeeded + 1
    /\ pre' = engine
    /\ UNCHANGED storeVars

IsComplete ==
    /\ ~engine.null
    /\ call' = [BlankCall EXCEPT !.op = "isComplete", !.flag = isComplete(engine)]
    /\ pre' = engine
    /\ UNCHANGED <<engine, succeeded>>
    /\ UNCHANGED storeVars

GetChoices ==
    /\ ~engine.null
    /\ call' = [BlankCall EXCEPT !.op = "getChoices", !.choices = getChoices(engine)]
    /\ pre' = engine
    /\ UNCHANGED <<engine, succeeded>>
    /\ UNCHANGED storeVars

GetProgress ==
    /\ ~engine.null
    /\ call' = [BlankCall EXCEPT !.op = "getProgress", !.progress = getProgress(engine)]
    /\ pre' = engine
    /\ UNCHANGED <<engine, succeeded>>
    /\ UNCHANGED storeVars

Next ==
    \/ \E items \in PoolInputs, config \in ConfigInputs : Construct(items, config)
    \/ GetNextTrialSet
    \/ \E p \in PresentedInputs, b \in ArgItems, w \in ArgItems : RecordChoice(p, b, w)
    \/ IsComplete
    \/ GetChoices
    \/ GetProgress

Spec == Init /\ [][Next]_vars

----------------------------------------------------------------------------
(* The session store driven by the UI *)

\* An item of no pool.
Foreign == Item(9, "foreign")

\* What a session is started with: a pool too small for the subset size, a
\* subset size below 2, and a pool of 3 items with subsets of 2 or 3 items.
StartInputs ==
    { <<Pool(1), EngineConfig(2, 1)>>, <<Pool(3), EngineConfig(1, 1)>> }
      \cup { <<Pool(3), EngineConfig(k, t)>> : k \in {2, 3}, t \in 0..MaxTarget }

\* The (bestItem, worstItem) pairs submitted: the first two displayed items
\* (every order of a subset is displayed, so every pair of its items is
\* chosen), one item twice, and an item that is not displayed.
SubmitInputs(st) ==
    IF st.currentTrialSet.null
    THEN { <<PoolItem(1), PoolItem(2)>> }
    ELSE LET shown == st.currentTrialSet.items
         IN { <<shown[1], shown[2]>>, <<shown[1], shown[1]>>, <<shown[1], Foreign>> }

\* The store action described by c ends with outcome o.
Done(o, c) ==
    /\ store' = o.store
    /\ observed' = [status |-> store.taskStatus, error |-> store.error, sets |-> o.sets]
    /\ call' = [c EXCEPT !.flag = o.ret, !.threw = o.threw]

StartNewTaskSession(items, config) ==
    /\ \E o \in startNewTaskSession(store, items, config) :
           Done(o, [BlankCall EXCEPT !.op = "startNewTaskSession",
                                     !.items = items, !.config = config])
    /\ UNCHANGED engineVars

SubmitChoiceAndProceed(bestItem, worstItem) ==
    /\ \E o \in submitChoiceAndProceed(store, bestItem, worstItem) :
           Done(o, [BlankCall EXCEPT !.op = "submitChoiceAndProceed",
                                     !.bestItem = bestItem, !.worstItem = worstItem])
    /\ UNCHANGED engineVars

EndTaskSession ==
    /\ Done(endTaskSession(store), [BlankCall EXCEPT !.op = "endTaskSession"])
    /\ UNCHANGED engineVars

ClearError ==
    /\ Done(clearError(store), [BlankCall EXCEPT !.op = "clearError"])
    /\ UNCHANGED engineVars

GetRecordedChoices ==
    /\ Done(Outcome(store, FALSE, <<>>),
            [BlankCall EXCEPT !.op = "getRecordedChoices",
                              !.choices = getRecordedChoices(store)])
    /\ UNCHANGED engineVars

GetProgressOfStore ==
    /\ Done(Outcome(store, FALSE, <<>>),
            [BlankCall EXCEPT !.op = "getProgress",
                              !.isNull = getProgressOfStore(store).null,
                              !.progress = IF getProgressOfStore(store).null
                                           THEN BlankCall.progress
                                           ELSE getProgressOfStore(store).progress])
    /\ UNCHANGED engineVars

NextStore ==
    \/ \E a \in StartInputs : StartNewTaskSession(a[1], a[2])
    \/ \E a \in SubmitInputs(store) : SubmitChoiceAndProceed(a[1], a[2])
    \/ EndTaskSession
    \/ ClearError
    \/ GetRecordedChoices
    \/ GetProgressOfStore

SpecStore == Init /\ [][NextStore]_vars

----------------------------------------------------------------------------
(* A participant who answers every trial that is displayed: the session is   *)
(* started when none is in progress, every displayed subset is answered     *)
(* with two of its items, and the session is ended once it is completed.  A *)
(* displayed trial is eventually answered (weak fairness of the submission). *)

\* The valid choices for the displayed subset.
ValidChoices(st) ==
    LET shown == st.currentTrialSet.items
    IN { <<shown[1], shown[2]>>, <<shown[2], shown[1]>> }

ParticipantStarts ==
    /\ store.taskStatus # "in_progress"
    /\ \E a \in StartInputs : StartNewTaskSession(a[1], a[2])

ParticipantSubmits ==
    /\ ~store.currentTrialSet.null
    /\ \E a \in ValidChoices(store) : SubmitChoiceAndProceed(a[1], a[2])

ParticipantEnds ==
    /\ store.taskStatus = "completed"
    /\ EndTaskSession

NextParticipant ==
    \/ ParticipantStarts
    \/ ParticipantSubmits
    \/ ParticipantEnds

SpecParticipant ==
    Init /\ [][NextParticipant]_vars /\ WF_vars(ParticipantSubmits)

----------------------------------------------------------------------------
(* A caller that keeps its items array, its config object and the arrays     *)
(* getChoices returns, and changes them while the session runs              *)

\* An id of no item.
ForeignId == 9

Reverse(q) == [i \in 1..Len(q) |-> q[Len(q) + 1 - i]]

\* const items = [...]; const config = {...}
CallerCreates(items, config) ==
    /\ shared.heap = <<>>
    /\ LET i == Alloc(<<>>, FALSE, items)
           c == Alloc(i.heap, FALSE, config)
       IN shared' = [shared EXCEPT !.heap = c.heap, !.items = i.at,
                                   !.config = c.at, !.op = "create"]
    /\ UNCHANGED valueVars

\* const engine = new MaxDiffEngine(items, config)
CallerConstructs ==
    /\ shared.heap # <<>> /\ shared.engine.null
    /\ LET r == ConstructorOnHeap(shared.heap, shared.items, shared.config)
       IN /\ ~r.engine.null
          /\ shared' = [shared EXCEPT
                 !.heap = r.heap, !.engine = r.engine, !.op = "new",
                 !.made = [items |-> shared.heap[shared.items].val,
                           config |-> shared.heap[shared.config].val]]
    /\ UNCHANGED valueVars

\* A step of the caller on its own array or object after construction.
Edit(at, val, op) ==
    /\ ~shared.engine.null
    /\ shared.edits < MaxEdits
    /\ shared' = [shared EXCEPT !.heap = Write(@, at, val),
                                !.edits = @ + 1, !.op = op]
    /\ UNCHANGED valueVars

\* items.push(x)
CallerPushesItem ==
    /\ shared.heap # <<>>
    /\ Edit(shared.items,
            Append(shared.heap[shared.items].val, Item(ForeignId, "foreign")), "push")

\* items.pop()
CallerPopsItem ==
    /\ shared.heap # <<>>
    /\ shared.heap[shared.items].val # <<>>
    /\ Edit(shared.items,
            SubSeq(shared.heap[shared.items].val, 1,
                   Len(shared.heap[shared.items].val) - 1), "pop")

\* items.reverse()
CallerReversesItems ==
    /\ shared.heap # <<>>
    /\ Edit(shared.items, Reverse(shared.heap[shared.items].val), "reverse")

\* config.itemsPerSubset = k; config.targetTrials = t
CallerSetsConfig(k, t) ==
    /\ shared.heap # <<>>
    /\ shared.heap[shared.config].val # EngineConfig(k, t)
    /\ Edit(shared.config, EngineConfig(k, t), "config")

\* engine.recordChoice(s, s[0], s[1]) for a trial set s the engine returned
CallerRecordsChoice ==
    /\ ~shared.engine.null
    /\ \E s \in getNextTrialSet(EngineAt(shared.heap, shared.engine)) :
          LET r == recordChoiceOnHeap(shared.heap, shared.engine, s, s[1], s[2])
              v == EngineAt(r.heap, r.engine)
          IN shared' = [shared EXCEPT
                 !.heap = r.heap, !.engine = r.engine, !.op = "recordChoice",
                 !.logged = Append(@, v.choices[Len(v.choices)])]
    /\ UNCHANGED valueVars

\* const got = engine.getChoices()
CallerGetsChoices ==
    /\ ~shared.engine.null
    /\ shared.edits < MaxEdits
    /\ LET r == getChoicesOnHeap(shared.heap, shared.engine)
       IN shared' = [shared EXCEPT !.heap = r.heap, !.got = r.at,
                                   !.edits = @ + 1, !.op = "getChoices"]
    /\ UNCHANGED valueVars

\* got.pop()
CallerPopsReturned ==
    /\ shared.got # 0
    /\ shared.heap[shared.got].val # <<>>
    /\ Edit(shared.got,
            SubSeq(shared.heap[shared.got].val, 1,
                   Len(shared.heap[shared.got].val) - 1), "got.pop")

\* got[0].bestItemId = x
CallerSetsBestOfReturned ==
    /\ shared.got # 0
    /\ shared.heap[shared.got].val # <<>>
    /\ LET a == shared.heap[shared.got].val[1]
       IN Edit(a, [shared.heap[a].val EXCEPT !.bestItemId = ForeignId], "got[0].bestItemId")

\* got[0].presentedItemIds.push(x)
CallerPushesIdOfReturned ==
    /\ shared.got # 0
    /\ shared.heap[shared.got].val # <<>>
    /\ LET a == shared.heap[shared.heap[shared.got].val[1]].val.presentedItemIds
       IN Edit(a, Append(shared.heap[a].val, ForeignId), "got[0].presentedItemIds.push")

\* The arrays and configurations a caller makes.
CallerInputs ==
    { <<Pool(n), EngineConfig(2, t)>> : n \in {2, 3}, t \in {1, 2} }

\* The configurations a caller changes its object to.
CallerConfigEdits == { <<3, 1>>, <<2, 0>> }

NextShared ==
    \/ \E a \in CallerInputs : CallerCreates(a[1], a[2])
    \/ CallerConstructs
    \/ CallerPushesItem
    \/ CallerPopsItem
    \/ CallerReversesItems
    \/ \E a \in CallerConfigEdits : CallerSetsConfig(a[1], a[2])
    \/ CallerRecordsChoice
    \/ CallerGetsChoices
    \/ CallerPopsReturned
    \/ CallerSetsBestOfReturned
    \/ CallerPushesIdOfReturned

SpecShared == Init /\ [][NextShared]_vars

----------------------------------------------------------------------------
(* The visualization aggregating a choice log *)

\* An id in a log that matches no item.
StaleId == 9

\* What a trial of a log holds: the ids presented, the best and the worst.
\* The ids 1, 2, 3 are those of Pool(3).
TrialInputs ==
    { <<<<1, 2, 3>>, 1, 3>>, <<<<1, 2, 3>>, 3, 2>>, <<<<1, 2>>, 1, 2>>,
      <<<<3, 2>>, 2, 3>>, <<<<1, StaleId>>, StaleId, 1>>, <<<<StaleId, 2>>, 2, StaleId>> }

\* The logs of n trials, numbered as recordChoice numbers them.
RECURSIVE Logs(_)
Logs(n) ==
    IF n = 0 THEN { <<>> }
    ELSE { Append(l, RecordedChoice(n, t[1], t[2], t[3])) :
               l \in Logs(n - 1), t \in TrialInputs }

ChoiceInputs == UNION { Logs(n) : n \in 0..MaxChoices }

\* The items lists: empty, pools, a list in another order, a list where an
\* id occurs twice, and an item without a name.
ItemInputs ==
    { <<>>, Pool(2), Pool(3), <<PoolItem(3), PoolItem(1)>>,
      <<PoolItem(1), Alias, PoolItem(2)>>, <<Item(2, ""), PoolItem(3)>> }

InitScores ==
    /\ engine = NoEngine
    /\ pre = NoEngine
    /\ call = BlankCall
    /\ succeeded = 0
    /\ store = InitialStore
    /\ observed = NothingObserved
    /\ shared = NothingShared
    /\ \E choices \in ChoiceInputs, items \in ItemInputs :
          scores = [choices |-> choices, items |-> items,
                    computed |-> FALSE, result |-> <<>>]
    /\ itemStore = InitialItemStore
    /\ view = Unmounted
    /\ configStore = configInitialState
    /\ panel = NoPanel
    /\ download = NothingDownloaded

\* the useMemo callback runs
ComputeScores ==
    /\ ~scores.computed
    /\ scores' = [scores EXCEPT !.computed = TRUE,
                                !.result = computeScores(scores.choices, scores.items)]
    /\ UNCHANGED <<engine, pre, call, succeeded, store, observed, shared, uiVars>>

NextScores == ComputeScores

SpecScores == InitScores /\ [][NextScores]_vars

----------------------------------------------------------------------------
(* The item pool edited from the upload panels *)

\* The number of additions followed.
MaxAdds == 2

\* The text of n lines.
Lines(n) == [i \in 1..n |-> "line"]

\* The lists of lines added: one line, and the lines of a file that fills
\* all but one slot of an empty pool.
TextInputs == { Lines(1), Lines(MAX_ITEMS - 1) }

MediaTypes == {"image", "video", "audio", "application"}

\* The lists of files added: a file of every type, and two files of which
\* the first, the second or both get a preview.
FileInputs ==
    { <<File("file", t)>> : t \in MediaTypes }
      \cup { <<File("file", "image"), File("file", "audio")>>,
             <<File("file", "audio"), File("file", "video")>>,
             <<File("file", "video"), File("file", "application")>> }

\* An id no item of the pool has.
UnknownId == 0

\* The ids removed: the first item, every item that has a preview, and an id
\* that is not in the pool.
RemoveInputs(st) ==
    { st.items[i].id : i \in { j \in 1..Len(st.items) :
                                 j = 1 \/ st.items[j].previewUrl # NoUrl } }
      \cup {UnknownId}

\* What the item store leaves alone.
outsideItems == <<sessionVars, view, configStore, panel, download>>

AddTextItems(textList) ==
    /\ itemStore.adds < MaxAdds
    /\ itemStore' = [addTextItems(itemStore, textList) EXCEPT !.adds = @ + 1]
    /\ UNCHANGED outsideItems

AddMediaItems(fileList) ==
    /\ itemStore.adds < MaxAdds
    /\ itemStore' = [addMediaItems(itemStore, fileList) EXCEPT !.adds = @ + 1]
    /\ UNCHANGED outsideItems

RemoveItem(itemId) ==
    /\ itemStore' = removeItem(itemStore, itemId)
    /\ UNCHANGED outsideItems

ClearAllItems ==
    /\ itemStore' = clearAllItems(itemStore)
    /\ UNCHANGED outsideItems

NextItems ==
    \/ \E textList \in TextInputs : AddTextItems(textList)
    \/ \E fileList \in FileInputs : AddMediaItems(fileList)
    \/ \E itemId \in RemoveInputs(itemStore) : RemoveItem(itemId)
    \/ ClearAllItems

SpecItems == Init /\ [][NextItems]_vars

----------------------------------------------------------------------------
(* A participant working in TrialView with the mouse and by touch, and App   *)
(* starting and ending the session                                           *)

\* The touch timers followed at a time.
MaxTouches == 1

\* The sessions started: two trials on a pool of two items, and one trial of
\* two items of a pool of three.
ViewStartInputs ==
    { <<Pool(2), EngineConfig(2, 2)>>, <<Pool(3), EngineConfig(2, 1)>> }

Zones == {"best", "worst", "central"}

\* The items rendered, each with its onMouseDown and onTouchStart.
ItemsShown ==
    IF store.currentTrialSet.null THEN {}
    ELSE { store.currentTrialSet.items[i] : i \in 1..Len(store.currentTrialSet.items) }

\* The items of every session started.
ViewItems == { PoolItem(i) : i \in 1..3 }

\* The store has made the set() calls of outcome o for the call c; App and
\* TrialView render again and run their effects.
Published(o, c) ==
    LET r == Rendering(store, o.store, view)
    IN /\ store' = r.store
       /\ view' = r.view
       /\ observed' = [status |-> store.taskStatus, error |-> store.error,
                       sets |-> IF r.store = o.store THEN o.sets
                                ELSE o.sets \o clearError(o.store).sets]
       /\ call' = [c EXCEPT !.flag = o.ret, !.threw = o.threw]
       /\ UNCHANGED <<engine, pre, succeeded, shared, scores, itemStore, configStore, panel,
                    download>>

\* What TrialView leaves alone when only its own state changes.
outsideView == <<sessionVars, itemStore, configStore, panel, download>>

\* App.handleStartTask, the button being enabled
StartTask ==
    /\ store.taskStatus # "in_progress"
    /\ \E a \in ViewStartInputs :
          \E o \in startNewTaskSession(store, a[1], a[2]) :
              Published(o, [BlankCall EXCEPT !.op = "startNewTaskSession",
                                            !.items = a[1], !.config = a[2]])

\* App.handleEndTask, from the button 'End Task Session'
EndTask ==
    /\ store.taskStatus = "in_progress"
    /\ Published(endTaskSession(store), [BlankCall EXCEPT !.op = "endTaskSession"])

\* onMouseDown of an item
MouseDown(item) ==
    /\ TrialShown(store, view)
    /\ item \in ItemsShown
    /\ view' = Listening(view, handleDragStart(view, item, view.selectedBestItemId,
                                                view.selectedWorstItemId))
    /\ UNCHANGED outsideView

\* onMouseUp of the container: handleMouseUp
MouseUp(zone) ==
    /\ TrialShown(store, view)
    /\ view.isDragging /\ view.draggedItem.id # NoId
    /\ view' = Listening(view, DragEnded(handleDrop(view, zone, view.selectedBestItemId,
                                                     view.selectedWorstItemId)))
    /\ UNCHANGED outsideView

\* onTouchStart of an item: handleTouchStart.  The timer set before, if any,
\* is not cleared.
TouchStart(item) ==
    /\ TrialShown(store, view)
    /\ item \in ItemsShown
    /\ Cardinality(view.pending) < MaxTouches
    /\ LET timer == Timer(item, view.selectedBestItemId, view.selectedWorstItemId)
       IN view' = Listening(view, [view EXCEPT !.touchTimer = timer,
                                               !.pending = @ \cup {timer}])
    /\ UNCHANGED outsideView

\* the callback of a touch timer, 500 ms after the touch started
TouchTimerFires(timer) ==
    /\ view.mounted
    /\ view' = Listening(view, [handleDragStart(view, timer.item, timer.best, timer.worst)
                                   EXCEPT !.pending = @ \ {timer}])
    /\ UNCHANGED outsideView

\* touchmove of more than 10 px before the drag has started: the finger
\* scrolls, clearTimeout(touchTimer)
TouchScroll ==
    /\ TrialShown(store, view)
    /\ ~(view.isDragging /\ view.draggedItem.id # NoId)
    /\ ~view.touchTimer.null
    /\ view' = Listening(view, [view EXCEPT !.pending = @ \ {view.touchTimer},
                                            !.touchTimer = NoTimer])
    /\ UNCHANGED outsideView

\* touchend on the container: touchEndHandler, with the handleDrop of the
\* render in which the listener was added
TouchEnd(zone) ==
    /\ TrialShown(store, view)
    /\ LET untimed == [view EXCEPT !.pending = @ \ {view.touchTimer},
                                   !.touchTimer = NoTimer]
       IN view' = Listening(view,
                     IF ~view.isDragging \/ view.draggedItem.id = NoId THEN untimed
                     ELSE DragEnded(handleDrop(untimed, zone, view.registered.best,
                                               view.registered.worst)))
    /\ UNCHANGED outsideView

\* onClick of 'Submit Choice', the button being enabled: handleSubmit
ClickSubmit ==
    /\ TrialShown(store, view)
    /\ ~isSubmitDisabled(view)
    /\ LET s == handleSubmit(view, store.currentTrialSet)
       IN IF s.called
          THEN \E o \in submitChoiceAndProceed(store, s.bestItem, s.worstItem) :
                   Published(o, [BlankCall EXCEPT !.op = "submitChoiceAndProceed",
                                                 !.bestItem = s.bestItem,
                                                 !.worstItem = s.worstItem])
          ELSE UNCHANGED vars

NextView ==
    \/ StartTask
    \/ EndTask
    \/ \E item \in ViewItems : MouseDown(item)
    \/ \E zone \in Zones : MouseUp(zone)
    \/ \E item \in ViewItems : TouchStart(item)
    \/ \E timer \in view.pending : TouchTimerFires(timer)
    \/ TouchScroll
    \/ \E zone \in Zones : TouchEnd(zone)
    \/ ClickSubmit

SpecView == Init /\ [][NextView]_vars

----------------------------------------------------------------------------
(* The configuration edited in ConfigPanel while the pool changes *)

\* A text of n letters.
Letters(n) == [i \in 1..n |-> "x"]

\* What is typed into 'Items Per Trial'.
ItemsPerSubsetTexts == { <<>>, <<"2">>, <<"5">> }

\* What is typed into 'Target Number of Trials'.
TrialsTexts == { <<>>, <<"-", "1">>, <<"2">> }

PositiveLabels == { <<"W", "o", "r", "s", "t">> }

NegativeLabels == { <<" ">> }

InstructionTexts == { Letters(19) \o <<" ">> }

\* The lines added to the pool.
PoolTexts == { Lines(4) }

\* An event took the form to f; the effects of ConfigPanel have run.
Edited(f, itemsReplaced) ==
    LET r == FormEffects(Form(configStore, panel), f,
                         getItemCount(itemStore'), itemsReplaced)
    IN /\ configStore' = r.config
       /\ panel' = r.panel
       /\ UNCHANGED <<sessionVars, view, download>>

\* App renders the setup sections
MountPanel ==
    /\ ~panel.mounted
    /\ configStore' = FormMounted(configStore, getItemCount(itemStore)).config
    /\ panel' = FormMounted(configStore, getItemCount(itemStore)).panel
    /\ UNCHANGED <<sessionVars, itemStore, view, download>>

\* a task starts: App renders the setup sections no more
UnmountPanel ==
    /\ panel.mounted
    /\ panel' = NoPanel
    /\ UNCHANGED <<sessionVars, itemStore, view, configStore, download>>

ChangeItemsPerSubset(inputValue) ==
    /\ panel.mounted
    /\ UNCHANGED itemStore
    /\ Edited(handleItemsPerSubsetChange(Form(configStore, panel), inputValue), FALSE)

BlurItemsPerSubset ==
    /\ panel.mounted
    /\ UNCHANGED itemStore
    /\ Edited(handleItemsPerSubsetBlur(Form(configStore, panel)), FALSE)

ChangeTargetTrials(inputValue) ==
    /\ panel.mounted
    /\ UNCHANGED itemStore
    /\ Edited(handleTargetTrialsChange(Form(configStore, panel), inputValue), FALSE)

BlurTargetTrials ==
    /\ panel.mounted
    /\ UNCHANGED itemStore
    /\ Edited(handleTargetTrialsBlur(Form(configStore, panel)), FALSE)

\* onChange={(e) => setDimensionPositiveLabel(e.target.value)}
ChangePositiveLabel(label) ==
    /\ panel.mounted
    /\ UNCHANGED itemStore
    /\ Edited(Form([configStore EXCEPT !.dimensionPositiveLabel = label], panel), FALSE)

\* onChange={(e) => setDimensionNegativeLabel(e.target.value)}
ChangeNegativeLabel(label) ==
    /\ panel.mounted
    /\ UNCHANGED itemStore
    /\ Edited(Form([configStore EXCEPT !.dimensionNegativeLabel = label], panel), FALSE)

\* onChange={(e) => setInstructionText(e.target.value)}
ChangeInstructionText(text) ==
    /\ panel.mounted
    /\ UNCHANGED itemStore
    /\ Edited(Form([configStore EXCEPT !.instructionText = text], panel), FALSE)

\* onClick={resetConfigToDefaults} of 'Reset to Defaults'
ClickResetToDefaults ==
    /\ panel.mounted
    /\ UNCHANGED itemStore
    /\ Edited(Form(resetConfigToDefaults(configStore), panel), FALSE)

PoolAddsText(textList) ==
    /\ panel.mounted
    /\ itemStore.adds < MaxAdds
    /\ itemStore' = [addTextItems(itemStore, textList) EXCEPT !.adds = @ + 1]
    /\ Edited(Form(configStore, panel), TRUE)

PoolRemovesFirstItem ==
    /\ panel.mounted
    /\ itemStore.items # <<>>
    /\ itemStore' = removeItem(itemStore, itemStore.items[1].id)
    /\ Edited(Form(configStore, panel), TRUE)

PoolCleared ==
    /\ panel.mounted
    /\ itemStore' = clearAllItems(itemStore)
    /\ Edited(Form(configStore, panel), TRUE)

NextConfig ==
    \/ MountPanel
    \/ UnmountPanel
    \/ \E inputValue \in ItemsPerSubsetTexts : ChangeItemsPerSubset(inputValue)
    \/ BlurItemsPerSubset
    \/ \E inputValue \in TrialsTexts : ChangeTargetTrials(inputValue)
    \/ BlurTargetTrials
    \/ \E label \in PositiveLabels : ChangePositiveLabel(label)
    \/ \E label \in NegativeLabels : ChangeNegativeLabel(label)
    \/ \E text \in InstructionTexts : ChangeInstructionText(text)
    \/ ClickResetToDefaults
    \/ \E textList \in PoolTexts : PoolAddsText(textList)
    \/ PoolRemovesFirstItem
    \/ PoolCleared

SpecConfig == Init /\ [][NextConfig]_vars

----------------------------------------------------------------------------
(* One task run to its end and exported: the pool comes from a text file,   *)
(* the form is valid with subsets of ITEMS_PER_SUBSET_MIN items and the     *)
(* recommended number of trials, the participant answers every trial, and   *)
(* App offers the download once the task is completed.                      *)

\* The lines of the text files uploaded, as TextFileUpload hands them to
\* addTextItems: trimmed and not empty.  The second file has the line
\* "b, c".
ExportTexts ==
    { << <<"a">>, <<"b">>, <<"c">> >>,
      << <<"a">>, <<"b", ",", " ", "c">>, <<"d">> >> }

\* The configuration after the form was filled in and found valid.
ExportConfig(itemCount) ==
    LET subsets == setItemsPerSubset(configInitialState, ITEMS_PER_SUBSET_MIN)
    IN setConfigValidity(
           setTargetNumberOfTrials(subsets, calculateRecommendedTrials(subsets, itemCount)),
           TRUE)

InitExport ==
    /\ engine = NoEngine
    /\ pre = NoEngine
    /\ call = BlankCall
    /\ succeeded = 0
    /\ store = InitialStore
    /\ observed = NothingObserved
    /\ shared = NothingShared
    /\ scores = NothingScored
    /\ \E textList \in ExportTexts :
          /\ itemStore = addTextItems(InitialItemStore, textList)
          /\ configStore = ExportConfig(Len(textList))
    /\ view = Unmounted
    /\ panel = NoPanel
    /\ download = NothingDownloaded

\* App.canStartTask
canStartTask ==
    /\ configStore.isConfigValid
    /\ getItemCount(itemStore) >= configStore.itemsPerSubset
    /\ store.taskStatus # "in_progress"

\* App.handleStartTask, from the button shown while no task is in progress
\* or completed, the button being enabled
ExportStarts ==
    /\ store.taskStatus = "idle"
    /\ canStartTask
    /\ StartNewTaskSession(itemStore.items,
                           EngineConfig(configStore.itemsPerSubset,
                                        configStore.targetNumberOfTrials))

\* App.handleDownloadResults, from the button shown once the task is
\* completed
DownloadResults ==
    /\ store.taskStatus = "completed"
    /\ download' = handleDownloadResults(getRecordedChoices(store), itemStore.items,
                                         configStore.itemsPerSubset)
    /\ UNCHANGED <<sessionVars, itemStore, view, configStore, panel>>

NextExport ==
    \/ ExportStarts
    \/ ParticipantSubmits
    \/ DownloadResults

SpecExport == InitExport /\ [][NextExport]_vars

----------------------------------------------------------------------------
(* Properties of the engine *)

\* The ids of an array of items, as a set.
IdSet(itemSeq) == { itemSeq[i].id : i \in 1..Len(itemSeq) }

\* The last call was recordChoice.
WasRecordChoice == call.op = "recordChoice"

\* The last call was a recordChoice that recorded a choice.
Recorded == WasRecordChoice /\ ~call.threw /\ ~call.warned

\* C1: in every reachable state of an engine, after successful and failing
\* calls alike, trialsConducted equals the length of the choice log.
C1_TrialsEqualLogLength ==
    ~engine.null => engine.trialsConducted = Len(engine.choices)

C1_Witness ==
    /\ WasRecordChoice /\ call.threw
    /\ engine.trialsConducted = 1 /\ Len(engine.choices) = 1

\* C2 as stated: recordChoice with bestItem.id = worstItem.id fails with an
\* InvalidChoice error in every engine state.
C2_SameItemAlwaysFails ==
    (WasRecordChoice /\ call.bestItem.id = call.worstItem.id)
        => (call.threw /\ call.message \in InvalidChoice)

\* C2 amended: on an engine that is not complete when the call is made,
\* recordChoice with bestItem.id = worstItem.id fails with an InvalidChoice
\* error, for every presentedItems.
C2_SameItemFailsWhenActive ==
    (WasRecordChoice /\ call.bestItem.id = call.worstItem.id /\ ~isComplete(pre))
        => (call.threw /\ call.message \in InvalidChoice)

C2_Witness ==
    /\ WasRecordChoice /\ ~isComplete(pre)
    /\ call.bestItem # call.worstItem /\ call.bestItem.id = call.worstItem.id
    /\ call.bestItem.id \in IdSet(call.presentedItems)
    /\ call.threw

\* C3 as stated: recordChoice with a bestItem or worstItem whose id is the id
\* of no presented item fails with an InvalidChoice error in every engine state.
C3_NotPresentedAlwaysFails ==
    (WasRecordChoice /\ ~({call.bestItem.id, call.worstItem.id}
                              \subseteq IdSet(call.presentedItems)))
        => (call.threw /\ call.message \in InvalidChoice)

\* C3 amended: on an engine that is not complete when the call is made,
\* recordChoice with a bestItem or worstItem whose id is the id of no presented
\* item fails with an InvalidChoice error.
C3_NotPresentedFailsWhenActive ==
    (WasRecordChoice /\ ~isComplete(pre)
       /\ ~({call.bestItem.id, call.worstItem.id} \subseteq IdSet(call.presentedItems)))
        => (call.threw /\ call.message \in InvalidChoice)

C3_Witness ==
    /\ WasRecordChoice /\ ~isComplete(pre)
    /\ call.bestItem.id \in IdSet(call.presentedItems)
    /\ call.worstItem.id \notin IdSet(call.presentedItems)
    /\ call.threw /\ call.message = ErrNotPresented

\* C4: a recordChoice call that throws leaves the engine as it was:
\* getProgress() and getChoices() return what they returned before the call.
C4_FailedCallChangesNothing ==
    (WasRecordChoice /\ call.threw)
        => /\ getProgress(engine) = getProgress(pre)
           /\ getChoices(engine) = getChoices(pre)
           /\ engine = pre

C4_Witness ==
    /\ WasRecordChoice /\ call.threw
    /\ pre.trialsConducted = 1 /\ Len(pre.choices) = 1

\* C5: recordChoice on a complete engine does not throw and leaves
\* trialsConducted and the choice log unchanged, whatever the arguments.
C5_CompleteEngineIgnoresCall ==
    (WasRecordChoice /\ isComplete(pre))
        => /\ ~call.threw
           /\ engine.trialsConducted = pre.trialsConducted
           /\ engine.choices = pre.choices

C5_Witness ==
    /\ WasRecordChoice /\ isComplete(pre) /\ pre.trialsConducted = 2
    /\ call.bestItem.id = call.worstItem.id
    /\ call.presentedItems = <<>>

\* C6: a recordChoice that succeeds on an active engine increments
\* trialsConducted by 1 and appends one RecordedChoice: trialNumber the new
\* trialsConducted, presentedItemIds the ids of presentedItems in order,
\* bestItemId and worstItemId the ids of the given items.
C6_SuccessAppendsOneChoice ==
    (WasRecordChoice /\ ~isComplete(pre) /\ ~call.threw)
        => /\ engine.trialsConducted = pre.trialsConducted + 1
           /\ Len(engine.choices) = Len(pre.choices) + 1
           /\ SubSeq(engine.choices, 1, Len(pre.choices)) = pre.choices
           /\ LET c == engine.choices[Len(engine.choices)]
                  p == call.presentedItems
              IN /\ c.trialNumber = engine.trialsConducted
                 /\ Len(c.presentedItemIds) = Len(p)
                 /\ \A i \in 1..Len(p) : c.presentedItemIds[i] = p[i].id
                 /\ c.bestItemId = call.bestItem.id
                 /\ c.worstItemId = call.worstItem.id

C6_Witness ==
    /\ WasRecordChoice /\ ~isComplete(pre) /\ ~call.threw
    /\ pre.trialsConducted = 1
    /\ Len(call.presentedItems) = 3
    /\ engine.choices[2].presentedItemIds = <<3, 2, 1>>

\* C7: every RecordedChoice of the log has bestItemId # worstItemId, both
\* among its presentedItemIds.
C7_LoggedChoicesAreValid ==
    ~engine.null =>
        \A i \in 1..Len(engine.choices) :
            LET c == engine.choices[i]
                shown == { c.presentedItemIds[j] : j \in 1..Len(c.presentedItemIds) }
            IN /\ c.bestItemId # c.worstItemId
               /\ c.bestItemId \in shown
               /\ c.worstItemId \in shown

C7_Witness ==
    /\ ~engine.null /\ Len(engine.choices) = 2
    /\ engine.choices[1].bestItemId = engine.choices[2].worstItemId

\* C8: with targetTrials = N, isComplete() is false while fewer than N
\* recordChoice calls have succeeded and true from the N-th success on;
\* failed calls and getNextTrialSet calls do not advance it.
C8_CompleteExactlyAtTarget ==
    ~engine.null =>
        /\ isComplete(engine) <=> (succeeded >= engine.config.targetTrials)
        /\ call.op = "isComplete"
              => (call.flag <=> (succeeded >= engine.config.targetTrials))

C8_Witness ==
    /\ ~engine.null /\ engine.config.targetTrials = 2
    /\ call.op = "isComplete" /\ ~call.flag /\ succeeded = 1

\* C9: complete is absorbing: from a complete engine no call leads to an
\* engine that is not complete or that has another trialsConducted or another
\* log; and trialsConducted never exceeds a target >= 0.
C9_CompleteIsAbsorbing ==
    /\ [][(~engine.null /\ isComplete(engine))
             => /\ ~engine'.null
                /\ isComplete(engine')
                /\ engine'.trialsConducted = engine.trialsConducted
                /\ engine'.choices = engine.choices]_vars
    /\ []((~engine.null /\ engine.config.targetTrials >= 0)
             => engine.trialsConducted <= engine.config.targetTrials)

C9_Witness ==
    /\ ~pre.null /\ isComplete(pre) /\ pre.trialsConducted = 2
    /\ WasRecordChoice /\ call.warned
    /\ call.bestItem.id # call.worstItem.id
    /\ {call.bestItem.id, call.worstItem.id} \subseteq IdSet(call.presentedItems)

\* C10: the constructor throws an InvalidConfiguration error iff
\* items.length < itemsPerSubset or itemsPerSubset < 2; otherwise it yields an
\* engine with trialsConducted = 0 and an empty log.
C10_ConstructorValidates ==
    call.op = "constructor" =>
        /\ call.threw <=> (\/ Len(call.items) < call.config.itemsPerSubset
                           \/ call.config.itemsPerSubset < 2)
        /\ call.threw => (call.message \in InvalidConfiguration /\ engine.null)
        /\ ~call.threw => /\ ~engine.null
                          /\ engine.trialsConducted = 0
                          /\ engine.choices = <<>>

C10_Witness ==
    /\ call.op = "constructor" /\ ~call.threw
    /\ Len(call.items) = call.config.itemsPerSubset
    /\ ~engine.null /\ engine.items = call.items /\ engine.config = call.config

\* The items of an array, as a set.
ItemSet(itemSeq) == { itemSeq[i] : i \in 1..Len(itemSeq) }

\* C12: on an engine that is not complete, getNextTrialSet() returns exactly
\* itemsPerSubset items, pairwise distinct and all of the pool snapshot; with
\* itemsPerSubset = pool size the trial set holds every pool item.
C12_TrialSetIsSubsetOfPool ==
    (call.op = "getNextTrialSet" /\ ~isComplete(pre))
        => /\ ~call.isNull
           /\ Len(call.trialSet) = pre.config.itemsPerSubset
           /\ \A i, j \in 1..Len(call.trialSet) :
                 (call.trialSet[i] = call.trialSet[j]
                    \/ call.trialSet[i].id = call.trialSet[j].id) => i = j
           /\ ItemSet(call.trialSet) \subseteq ItemSet(pre.items)
           /\ (pre.config.itemsPerSubset = Len(pre.items))
                 => ItemSet(call.trialSet) = ItemSet(pre.items)

C12_Witness ==
    /\ call.op = "getNextTrialSet" /\ ~isComplete(pre)
    /\ Len(pre.items) = 3 /\ pre.config.itemsPerSubset = 2
    /\ call.trialSet = <<PoolItem(3), PoolItem(1)>>
    /\ pre.trialsConducted = 1

\* C13: getNextTrialSet() returns null if and only if the engine is complete
\* when it is called.
C13_NullIffComplete ==
    call.op = "getNextTrialSet"
        => (call.isNull <=> pre.trialsConducted >= pre.config.targetTrials)

C13_Witness ==
    /\ call.op = "getNextTrialSet" /\ call.isNull
    /\ pre.trialsConducted = 2 /\ pre.config.targetTrials = 2

\* C14: an engine constructed with targetTrials = 0 is complete at once:
\* isComplete() is true, getNextTrialSet() returns null, and no recordChoice
\* call records anything on it.
C14_ZeroTargetIsComplete ==
    (~engine.null /\ engine.config.targetTrials = 0)
        => /\ isComplete(engine)
           /\ engine.trialsConducted = 0 /\ engine.choices = <<>>
           /\ succeeded = 0
           /\ call.op = "isComplete" => call.flag
           /\ call.op = "getNextTrialSet" => call.isNull
           /\ call.op = "recordChoice" => ~call.threw

C14_Witness ==
    /\ ~engine.null /\ engine.config.targetTrials = 0
    /\ call.op = "recordChoice"
    /\ call.presentedItems = <<PoolItem(1), PoolItem(2)>>
    /\ call.bestItem = PoolItem(1) /\ call.worstItem = PoolItem(2)

\* C27: trial numbers in the log are 1-based, increasing and gap-free: in
\* every reachable state the i-th entry of the log has trialNumber = i.
C27_TrialNumbersCountFromOne ==
    ~engine.null =>
        \A i \in 1..Len(engine.choices) : engine.choices[i].trialNumber = i

C27_Witness ==
    /\ ~engine.null
    /\ Len(engine.choices) = 2
    /\ engine.choices[1].trialNumber = 1
    /\ engine.choices[2].trialNumber = 2

Queries == {"getNextTrialSet", "isComplete", "getChoices", "getProgress"}

\* C29: getNextTrialSet, isComplete, getChoices and getProgress are pure
\* queries: after any of them, in whatever order they are called, the engine
\* has the trialsConducted, the log, the pool and the configuration it had
\* before the call.
C29_QueriesChangeNothing ==
    call.op \in Queries =>
        /\ engine.trialsConducted = pre.trialsConducted
        /\ engine.choices = pre.choices
        /\ engine.items = pre.items
        /\ engine.config = pre.config

\* A trial set was drawn between two recorded choices.
C29_Witness ==
    /\ call.op = "getNextTrialSet" /\ ~call.isNull
    /\ pre.trialsConducted = 1 /\ engine.trialsConducted = 1
    /\ Len(engine.choices) = 1
    /\ engine.config.targetTrials = 2

\* The sequences of k different items of the pool of e.
DrawsFromPool(e) ==
    { s \in [1..e.config.itemsPerSubset -> ItemSet(e.items)] :
        \A i, j \in 1..e.config.itemsPerSubset : s[i] = s[j] => i = j }

\* C30: getNextTrialSet re-draws on every call and keeps no memory: on an
\* active engine a call can return any itemsPerSubset items of the pool, in
\* any order, whatever was returned or recorded before: exactly what it can
\* return on a new engine for the same pool and configuration.
C30_EveryCallRedraws ==
    (~engine.null /\ ~isComplete(engine)) =>
        /\ getNextTrialSet(engine) = DrawsFromPool(engine)
        /\ getNextTrialSet(engine)
              = getNextTrialSet(NewEngine(engine.items, engine.config))

\* The pair presented and recorded in trial 1 is drawn again for trial 2,
\* although item 3 has not been presented yet.
C30_Witness ==
    /\ call.op = "getNextTrialSet" /\ ~call.isNull
    /\ Len(pre.items) = 3
    /\ pre.trialsConducted = 1
    /\ pre.choices[1].presentedItemIds = <<1, 2>>
    /\ IdSet(call.trialSet) = {1, 2}

----------------------------------------------------------------------------
(* Properties of the session store *)

WasStart == call.op = "startNewTaskSession"

WasSubmit == call.op = "submitChoiceAndProceed"

\* C16: startNewTaskSession never lets a construction failure escape: when
\* the items are fewer than itemsPerSubset, or itemsPerSubset is below 2, it
\* returns false and leaves error = the failure message, engine = null,
\* currentTrialSet = null and taskStatus = 'idle'.
C16_StartFailureIsCaptured ==
    WasStart =>
        /\ ~call.threw
        /\ Len(call.items) < call.config.itemsPerSubset
              => /\ call.flag = FALSE
                 /\ store.error = ErrorMessage(ErrTooFewItems)
                 /\ store.engine = NoEngine
                 /\ store.currentTrialSet = NullTrialSet
                 /\ store.taskStatus = "idle"
        /\ (Len(call.items) >= call.config.itemsPerSubset
              /\ call.config.itemsPerSubset < 2)
              => /\ call.flag = FALSE
                 /\ store.error = ErrorMessage(ErrSubsetTooSmall)
                 /\ store.engine = NoEngine
                 /\ store.currentTrialSet = NullTrialSet
                 /\ store.taskStatus = "idle"

\* A session that had recorded a choice is discarded by a failed start.
C16_Witness ==
    /\ WasStart /\ call.flag = FALSE
    /\ Len(call.items) < call.config.itemsPerSubset
    /\ observed.status = "in_progress"
    /\ store.engine = NoEngine /\ ~store.error.null

\* C17: after every startNewTaskSession call that returns true the store
\* holds a new engine with 0 trials conducted and an empty choice log, error
\* is null, and currentTrialSet is a non-null subset of itemsPerSubset items
\* of that engine's pool.
C17_SuccessPrimesFirstSubset ==
    (WasStart /\ call.flag = TRUE) =>
        /\ ~store.engine.null
        /\ store.engine.trialsConducted = 0
        /\ store.engine.choices = <<>>
        /\ store.engine.config = call.config
        /\ store.error = NoError
        /\ ~store.currentTrialSet.null
        /\ Len(store.currentTrialSet.items) = call.config.itemsPerSubset
        /\ ItemSet(store.currentTrialSet.items) \subseteq ItemSet(store.engine.items)

\* C18: submitChoiceAndProceed is atomic as seen by the UI.  Every store
\* state it publishes after the choice is recorded (one per set() call)
\* already has the trial set drawn after the record, or null, and the
\* taskStatus that goes with the engine's completion: the log never holds N
\* choices while currentTrialSet is the array presented for trial N.
C18_SubmitPublishesOnce ==
    /\ (~store.engine.null /\ ~store.currentTrialSet.null)
          => store.currentTrialSet.ref = Len(store.engine.choices) + 1
    /\ (WasSubmit /\ store.error.null) =>
          /\ Len(observed.sets) >= 1
          /\ \A i \in 1..Len(observed.sets) :
                \E j \in 1..i :
                   LET u == observed.sets[j]
                   IN /\ {"currentTrialSet", "taskStatus"} \subseteq DOMAIN u
                      /\ u.currentTrialSet = store.currentTrialSet
                      /\ u.currentTrialSet.null
                            <=> isComplete(store.engine)
                      /\ u.taskStatus = IF isComplete(store.engine)
                                        THEN "completed" ELSE "in_progress"
          /\ store.taskStatus = IF isComplete(store.engine)
                                THEN "completed" ELSE "in_progress"

C18_Witness ==
    /\ WasSubmit /\ store.error.null
    /\ Len(store.engine.choices) = 1
    /\ store.engine.config.targetTrials = 2
    /\ store.taskStatus = "in_progress"
    /\ store.currentTrialSet.ref = 2

\* C19: endTaskSession, called in any store state, leaves engine = null,
\* currentTrialSet = null, taskStatus = 'idle' and error = null; afterwards
\* getRecordedChoices() is empty and getProgress() is null.
C19_EndResetsStore ==
    /\ call.op = "endTaskSession"
          => /\ store.engine = NoEngine
             /\ store.currentTrialSet = NullTrialSet
             /\ store.taskStatus = "idle"
             /\ store.error = NoError
             /\ getRecordedChoices(store) = <<>>
             /\ getProgressOfStore(store) = NullProgress
    /\ (call.op = "getRecordedChoices" /\ store.engine.null)
          => call.choices = <<>>
    /\ (call.op = "getProgress" /\ store.engine.null) => call.isNull

\* A completed session that also shows an error is ended.
C19_Witness ==
    /\ call.op = "endTaskSession"
    /\ observed.status = "completed" /\ ~observed.error.null
    /\ store = InitialStore

\* The choice submitted in the step is one recordChoice rejects: the store
\* has a session and a trial set, and best and worst are the same item or
\* not both displayed.
SubmitsInvalidChoice ==
    /\ call'.op = "submitChoiceAndProceed"
    /\ ~store.engine.null /\ ~store.currentTrialSet.null
    /\ \/ call'.bestItem.id = call'.worstItem.id
       \/ ~FindById(store.currentTrialSet.items, call'.bestItem)
       \/ ~FindById(store.currentTrialSet.items, call'.worstItem)

\* C26: when the recordChoice inside submitChoiceAndProceed fails with an
\* invalid choice the store only sets error: the engine (progress and log),
\* currentTrialSet and taskStatus are unchanged, and no exception leaves the
\* action.
C26_FailedSubmitOnlySetsError ==
    [][SubmitsInvalidChoice =>
          /\ store'.engine = store.engine
          /\ store'.currentTrialSet = store.currentTrialSet
          /\ store'.taskStatus = store.taskStatus
          /\ ~store'.error.null
          /\ store'.error.message \in InvalidChoice
          /\ ~call'.threw
          /\ observed'.sets = <<[error |-> store'.error]>>]_vars

\* An item that is not displayed was submitted for the second trial.
C26_Witness ==
    /\ WasSubmit
    /\ store.error = ErrorMessage(ErrNotPresented)
    /\ store.engine.trialsConducted = 1
    /\ store.engine.config.targetTrials = 2
    /\ store.taskStatus = "in_progress"
    /\ ~store.currentTrialSet.null
    /\ store.currentTrialSet.ref = 2

\* q is a prefix of r
IsPrefix(q, r) == Len(q) <= Len(r) /\ SubSeq(r, 1, Len(q)) = q

\* C28: the choice log of a session is append-only: across every store step
\* other than starting and ending a session the log before the step is a
\* prefix of the log after it; starting (successfully or not) and ending
\* leave an empty log.
C28_LogIsAppendOnly ==
    [][IF call'.op \in {"startNewTaskSession", "endTaskSession"}
       THEN getRecordedChoices(store') = <<>>
       ELSE IsPrefix(getRecordedChoices(store), getRecordedChoices(store'))]_vars

\* The second choice of a session has been appended.
C28_Witness ==
    /\ WasSubmit /\ store.error.null
    /\ Len(getRecordedChoices(store)) = 2
    /\ store.engine.config.targetTrials = 2
    /\ store.taskStatus = "completed"

\* C31: through the store the subset recorded is the subset displayed:
\* getNextTrialSet has been called once per trial (once at the start and once
\* after each recorded choice), the presentedItemIds a submission records are
\* the ids, in order, of the currentTrialSet displayed when it was submitted,
\* and every logged entry presents itemsPerSubset distinct pool items.
C31_RecordedSubsetIsDisplayedSubset ==
    /\ [][(call'.op = "submitChoiceAndProceed"
             /\ Len(getRecordedChoices(store')) > Len(getRecordedChoices(store)))
          => /\ ~store.currentTrialSet.null
             /\ Len(getRecordedChoices(store')) = Len(getRecordedChoices(store)) + 1
             /\ getRecordedChoices(store')[Len(getRecordedChoices(store'))].presentedItemIds
                   = MapIds(store.currentTrialSet.items)
             /\ store.currentTrialSet.ref = Len(getRecordedChoices(store'))
             /\ store'.drawn = store.drawn + 1]_vars
    /\ [](~store.engine.null =>
            /\ store.drawn = store.engine.trialsConducted + 1
            /\ \A n \in 1..Len(store.engine.choices) :
                  LET ids == store.engine.choices[n].presentedItemIds
                  IN /\ Len(ids) = store.engine.config.itemsPerSubset
                     /\ \A i, j \in 1..Len(ids) : ids[i] = ids[j] => i = j
                     /\ \A i \in 1..Len(ids) : ids[i] \in IdSet(store.engine.items))

\* The subset displayed for trial 2 was <<3, 1>> and is what trial 2 recorded.
C31_Witness ==
    /\ WasSubmit /\ store.error.null
    /\ Len(store.engine.choices) = 2
    /\ store.engine.choices[2].presentedItemIds = <<3, 1>>
    /\ store.engine.choices[1].presentedItemIds = <<1, 2>>
    /\ store.drawn = 3

\* C35: the store's taskStatus reflects the engine in every reachable state:
\* 'idle' if and only if engine is null, 'completed' if and only if engine is
\* non-null and engine.isComplete().
C35_StatusReflectsEngine ==
    /\ store.taskStatus = "idle" <=> store.engine.null
    /\ store.taskStatus = "completed"
          <=> (~store.engine.null /\ isComplete(store.engine))

\* C36: a non-null currentTrialSet implies a non-null engine, taskStatus
\* 'in_progress' and conducted < target, so the progress line TrialView
\* renders never shows a trial number above the target.
C36_TrialSetImpliesActiveSession ==
    /\ ~store.currentTrialSet.null
          => /\ ~store.engine.null
             /\ store.taskStatus = "in_progress"
             /\ store.engine.trialsConducted < store.engine.config.targetTrials
    /\ ProgressLine(store).shown
          => /\ ProgressLine(store).trial >= 1
             /\ ProgressLine(store).trial <= ProgressLine(store).of

\* The last trial of a session is displayed: "Trial 2 of 2".
C36_Witness ==
    /\ ~store.currentTrialSet.null
    /\ ProgressLine(store).shown
    /\ ProgressLine(store).trial = 2 /\ ProgressLine(store).of = 2

\* C37: double submit: when a submitChoiceAndProceed(bestItem, worstItem)
\* call that recorded a choice is delivered a second time right after it, the
\* second delivery records nothing: the log stays as the first left it.
C37_DuplicateSubmitRecordsNothing ==
    [][(call.op = "submitChoiceAndProceed" /\ store.error.null
          /\ observed.status = "in_progress"
          /\ Len(getRecordedChoices(store)) > 0
          /\ getRecordedChoices(store)[Len(getRecordedChoices(store))].bestItemId
                = call.bestItem.id
          /\ getRecordedChoices(store)[Len(getRecordedChoices(store))].worstItemId
                = call.worstItem.id
          /\ call'.op = "submitChoiceAndProceed"
          /\ call'.bestItem = call.bestItem /\ call'.worstItem = call.worstItem)
       => getRecordedChoices(store') = getRecordedChoices(store)]_vars

\* C38: every session eventually completes: once startNewTaskSession has
\* succeeded and the participant keeps answering the displayed subset,
\* taskStatus eventually becomes 'completed', after exactly targetTrials
\* recorded submissions, and stays 'completed' until endTaskSession or a new
\* startNewTaskSession.
C38_SessionEventuallyCompletes ==
    /\ (WasStart /\ call.flag) ~> (store.taskStatus = "completed")
    /\ [](store.taskStatus = "completed"
            => store.engine.trialsConducted = store.engine.config.targetTrials)
    /\ [][store.taskStatus = "completed"
            => \/ store'.taskStatus = "completed"
               \/ call'.op \in {"endTaskSession", "startNewTaskSession"}]_vars

----------------------------------------------------------------------------
(* Properties of the objects shared with a caller *)

\* The engine of the caller, by value.
SharedEngine == EngineAt(shared.heap, shared.engine)

\* C11: the engine works on a snapshot taken at construction: whatever the
\* caller does to its items array or its config object afterwards, the
\* engine's items, subset size and target are those of the construction, so
\* getNextTrialSet can return what it could on the snapshot and isComplete()
\* becomes true when the snapshot's target is reached.
C11_EngineWorksOnSnapshot ==
    ~shared.engine.null =>
        LET snapshot == [NewEngine(shared.made.items, shared.made.config)
                           EXCEPT !.trialsConducted = shared.engine.trialsConducted]
        IN /\ SharedEngine.items = shared.made.items
           /\ SharedEngine.config = shared.made.config
           /\ getNextTrialSet(SharedEngine) = getNextTrialSet(snapshot)
           /\ isComplete(SharedEngine)
                 <=> shared.engine.trialsConducted >= shared.made.config.targetTrials
           /\ getProgress(SharedEngine).target = shared.made.config.targetTrials

\* The caller has emptied part of its array and changed both config fields
\* of a running session.
C11_Witness ==
    /\ ~shared.engine.null
    /\ shared.engine.trialsConducted = 1
    /\ shared.made.items = Pool(3)
    /\ shared.made.config = EngineConfig(2, 2)
    /\ shared.heap[shared.items].val = <<PoolItem(1), PoolItem(2)>>
    /\ shared.heap[shared.config].val = EngineConfig(3, 1)

----------------------------------------------------------------------------
(* Properties of the score aggregation *)

\* Trials of the log whose presentedItemIds contain id.
TrialsShowing(id) ==
    { j \in 1..Len(scores.choices) :
        \E p \in 1..Len(scores.choices[j].presentedItemIds) :
            scores.choices[j].presentedItemIds[p] = id }

TrialsWithBest(id) ==
    { j \in 1..Len(scores.choices) : scores.choices[j].bestItemId = id }

TrialsWithWorst(id) ==
    { j \in 1..Len(scores.choices) : scores.choices[j].worstItemId = id }

Defined(x) == x.den > 0

Zero == Fraction(0, 1)

RowsInOrder(p) ==
    /\ \A r \in 1..Len(scores.result) :
          /\ scores.result[r].id = scores.items[p[r]].id
          /\ scores.result[r].timesShown
                = Cardinality(TrialsShowing(scores.items[p[r]].id))
    /\ \A r, q \in 1..Len(scores.result) :
          r < q =>
             /\ ~Greater(scores.result[q].preferenceScore,
                         scores.result[r].preferenceScore)
             /\ scores.result[q].preferenceScore = scores.result[r].preferenceScore
                   => p[r] < p[q]

\* C22: the aggregation result is ordered by preferenceScore descending, two
\* rows with equal preferenceScore are in the order of their items in the
\* items list, and a non-empty result has exactly one row per element of the
\* items list.
C22_SortedStableOneRowPerItem ==
    (scores.computed /\ scores.result # <<>>) =>
        /\ Len(scores.result) = Len(scores.items)
        /\ \E p \in [1..Len(scores.items) -> 1..Len(scores.items)] :
              /\ \A i, j \in 1..Len(scores.items) : p[i] = p[j] => i = j
              /\ RowsInOrder(p)

\* Items 2 and 3 tie at 0 and stay in the order of the list.
C22_Witness ==
    /\ scores.computed
    /\ scores.items = <<Item(2, ""), PoolItem(3)>>
    /\ Len(scores.result) = 2
    /\ scores.result[1].id = 2 /\ scores.result[2].id = 3
    /\ scores.result[1].preferenceScore = scores.result[2].preferenceScore
    /\ scores.result[1].preferenceScore = Zero
    /\ scores.result[1].timesShown = 2

\* C23: the aggregation returns the empty sequence if the choice log is
\* empty or the items list is empty, and a non-empty sequence otherwise.
C23_EmptyIffAnInputIsEmpty ==
    scores.computed =>
        (scores.result = <<>> <=> (scores.choices = <<>> \/ scores.items = <<>>))

\* An empty log aggregated for a pool of three.
C23_Witness ==
    /\ scores.computed
    /\ scores.choices = <<>> /\ scores.items = Pool(3)
    /\ scores.result = <<>>

\* The row of scenario D for an item: each item is shown twice.
ScenarioRow(id, best, worst, pBest, pWorst, score) ==
    [id |-> id, name |-> "item", preferenceScore |-> Fraction(score, 1),
     timesShown |-> 2, timesBest |-> best, timesWorst |-> worst,
     percentBest |-> Fraction(pBest, 1), percentWorst |-> Fraction(pWorst, 1)]

\* The logs of scenario D, X = item 1, Y = item 2, Z = item 3: X is best
\* in one trial and Z worst, Z is best in the other and Y worst.
ScenarioLogs ==
    { <<RecordedChoice(1, <<1, 2, 3>>, 1, 3), RecordedChoice(2, <<1, 2, 3>>, 3, 2)>>,
      <<RecordedChoice(1, <<1, 2, 3>>, 3, 2), RecordedChoice(2, <<1, 2, 3>>, 1, 3)>> }

\* C24: scenario D: for items [X, Y, Z] and a log of 2 trials where each is
\* shown twice, X is best once and never worst, Y is never best and worst
\* once, Z is best once and worst once, the result is X: 50, 0, score 50;
\* then Z: 50, 50, score 0; then Y: 0, 50, score -50.
C24_ScenarioD ==
    (scores.computed /\ scores.items = Pool(3) /\ scores.choices \in ScenarioLogs) =>
        scores.result = << ScenarioRow(1, 1, 0, 50, 0, 50),
                           ScenarioRow(3, 1, 1, 50, 50, 0),
                           ScenarioRow(2, 0, 1, 0, 50, -50) >>

C24_Witness ==
    /\ scores.computed /\ scores.items = Pool(3)
    /\ scores.choices \in ScenarioLogs
    /\ scores.choices[1].bestItemId = 3
    /\ Len(scores.result) = 3
    /\ scores.result[2].id = 3

\* The scores MaxDiffVisualization computes of the session held by the store:
\* its recorded choices aggregated against its item pool.
ScoresOfSession(st) == computeScores(getRecordedChoices(st), st.engine.items)

\* lo <= x <= hi, for a defined x
Within(x, lo, hi) == Defined(x) /\ lo * x.den <= x.num /\ x.num <= hi * x.den

\* C39: for a log recorded through the store, aggregated against the
\* session's pool: every row has timesBest + timesWorst <= timesShown <= the
\* number of trials, percentBest and percentWorst in [0, 100] and
\* preferenceScore in [-100, 100].
C39_SessionScoresAreBounded ==
    ~store.engine.null =>
        \A r \in 1..Len(ScoresOfSession(store)) :
            LET row == ScoresOfSession(store)[r]
            IN /\ row.timesBest >= 0 /\ row.timesWorst >= 0
               /\ row.timesBest + row.timesWorst <= row.timesShown
               /\ row.timesShown <= Len(getRecordedChoices(store))
               /\ Within(row.percentBest, 0, 100)
               /\ Within(row.percentWorst, 0, 100)
               /\ Within(row.preferenceScore, -100, 100)

\* A completed session of two trials: one item was shown twice, best once
\* and worst once (score 0), another was shown once and best (score 100).
C39_Witness ==
    /\ store.taskStatus = "completed"
    /\ Len(getRecordedChoices(store)) = 2
    /\ \E r, q \in 1..Len(ScoresOfSession(store)) :
          /\ ScoresOfSession(store)[r].timesShown = 2
          /\ ScoresOfSession(store)[r].timesBest = 1
          /\ ScoresOfSession(store)[r].timesWorst = 1
          /\ ScoresOfSession(store)[r].preferenceScore = Zero
          /\ ScoresOfSession(store)[q].timesShown = 1
          /\ ScoresOfSession(store)[q].preferenceScore = Fraction(100, 1)

----------------------------------------------------------------------------
(* Properties of the sampling *)

\* The sets of k ids of the pool of e.
SubsetsOfPool(e) ==
    { ids \in SUBSET IdSet(e.items) : Cardinality(ids) = e.config.itemsPerSubset }

\* C25: trial subsets are sampled uniformly: whichever sort the engine runs,
\* every itemsPerSubset-element subset of the pool is equally likely to be
\* what a getNextTrialSet() call returns.
C25_SubsetsEquallyLikely ==
    (call.op = "getNextTrialSet" /\ ~call.isNull) =>
        \A alg \in SortAlgorithms :
            \A s1, s2 \in SubsetsOfPool(pre) :
                Chances(alg, pre, s1) = Chances(alg, pre, s2)

----------------------------------------------------------------------------
(* Properties of the item store *)

\* C33: media handles are released with their items: after any sequence of
\* addTextItems, addMediaItems, removeItem and clearAllItems, the object URLs
\* created and not yet revoked are exactly the previewUrl values of the
\* items in the pool, and no two items share one.
C33_LiveUrlsAreThoseOfThePool ==
    /\ LiveUrls(itemStore) = PreviewUrls(itemStore.items)
    /\ \A i, j \in 1..Len(itemStore.items) :
          (itemStore.items[i].previewUrl = itemStore.items[j].previewUrl
             /\ itemStore.items[i].previewUrl # NoUrl) => i = j

\* Three URLs were created by two additions; the item holding the second
\* was removed and that URL revoked, the two others are in the pool.
C33_Witness ==
    /\ itemStore.created = 3
    /\ itemStore.revoked = {2}
    /\ PreviewUrls(itemStore.items) = {1, 3}
    /\ Len(itemStore.items) = 2

----------------------------------------------------------------------------
(* Properties of TrialView *)

\* C34: in TrialView, after any sequence of drags and drops the selected
\* best and worst are never the same item; Submit is enabled exactly when
\* both are selected and distinct; handleSubmit calls submitChoiceAndProceed
\* only with two distinct members of the displayed currentTrialSet; and the
\* selections are reset whenever currentTrialSet or taskStatus changes.
C34_SelectionsStayDistinct ==
    /\ [](view.mounted =>
            /\ view.selectedBestItemId = view.selectedWorstItemId
                  => view.selectedBestItemId = NoId
            /\ ~isSubmitDisabled(view)
                  <=> /\ view.selectedBestItemId # NoId
                      /\ view.selectedWorstItemId # NoId
                      /\ view.selectedBestItemId # view.selectedWorstItemId)
    /\ [][(call'.op = "submitChoiceAndProceed" /\ store' # store)
            => /\ ~store.currentTrialSet.null
               /\ call'.bestItem \in ItemSet(store.currentTrialSet.items)
               /\ call'.worstItem \in ItemSet(store.currentTrialSet.items)
               /\ call'.bestItem.id # call'.worstItem.id]_vars
    /\ [][(store'.currentTrialSet # store.currentTrialSet
             \/ store'.taskStatus # store.taskStatus)
            => /\ view'.selectedBestItemId = NoId
               /\ view'.selectedWorstItemId = NoId]_vars

\* The second trial is displayed with nothing selected, the choice made by
\* drag and drop for the first having just been submitted.
C34_Witness ==
    /\ view.mounted
    /\ WasSubmit
    /\ Len(getRecordedChoices(store)) = 1
    /\ ~store.currentTrialSet.null
    /\ view.selectedBestItemId = NoId /\ view.selectedWorstItemId = NoId

----------------------------------------------------------------------------
(* Properties of the configuration *)

\* C40: while ConfigPanel is mounted and once its effects have run, after
\* any sequence of configuration edits, pool changes and 'Reset to Defaults'
\* clicks, configStore.isConfigValid equals what validateForm returns for
\* the current inputs, configuration and pool.
C40_ValidityFollowsTheForm ==
    panel.mounted =>
        configStore.isConfigValid
            = (validateForm(configStore, panel, getItemCount(itemStore)) = {})

----------------------------------------------------------------------------
(* Properties of the CSV export *)

\* The data rows of a file, as its reader sees them: the lines after the
\* header line.
DataRows(csvContent) == Tail(Split(csvContent, "\n"))

\* C32: the file has exactly one data row per recorded choice, in
\* trial-number order, and each row has exactly 3 + itemsPerSubset fields:
\* the trial number, the names of the best and of the worst item, then the
\* name of each presented item, blank where fewer were presented; with no
\* recorded choice no file is produced.
C32_OneRowPerChoice ==
    download.clicked =>
        LET choices == download.choices
            rows == DataRows(download.csvContent)
        IN /\ download.produced <=> Len(choices) > 0
           /\ download.produced =>
                /\ Len(rows) = Len(choices)
                /\ \A n \in 1..Len(rows) :
                     LET fields == Split(rows[n], ",")
                         ids == choices[n].presentedItemIds
                     IN /\ Len(fields) = 3 + download.itemsPerSubset
                        /\ choices[n].trialNumber = n
                        /\ fields[1] = NumberToString(n)
                        /\ fields[2] = NameInMap(download.items, choices[n].bestItemId)
                        /\ fields[3] = NameInMap(download.items, choices[n].worstItemId)
                        /\ \A i \in 1..download.itemsPerSubset :
                             fields[3 + i] = IF i <= Len(ids)
                                             THEN NameInMap(download.items, ids[i])
                                             ELSE <<>>

====
